---- MODULE Spec2Model ----
(***************************************************************************)
(* A model of go-fhir-client: the response classifier                      *)
(* (checkForOperationOutcomeError), the pagination driver (Paginate) and   *)
(* one HTTP exchange (BaseClient.doRequest).                               *)
(*                                                                         *)
(* Four specifications share the variables of the module:                  *)
(*   SpecClassify  the classifier applied to bounded inputs,               *)
(*   SpecPaginate  one call of Paginate against a server and a consumer,   *)
(*   SpecExchange  one Read, Create or Update: the whole of doRequest,     *)
(*   SpecRequest   calls up to the hand-over of the request, and again.    *)
(* The variables of the parts a specification does not use stay at their   *)
(* idle values.                                                            *)
(***************************************************************************)
EXTENDS Integers, Sequences, FiniteSets, TLC

VARIABLES
    \* ---- checkForOperationOutcomeError(data, errorEvenWithoutIssue, httpStatusCode)
    cpc,            \* "idle" | "call" | "returned"
    cData,          \* the body bytes given: [len, json]
    cForce,         \* errorEvenWithoutIssue
    cStatus,        \* httpStatusCode
    cErr,           \* the error returned (Nil for nil)
    \* ---- Paginate(ctx, fhirClient, searchSet, consumeFunc, opts...)
    ppc,            \* "idle" | "loop" | "fetch" | "done"
    maxIterations,  \* options.maxIterations once the opts have been applied
    i,              \* the loop counter
    searchSet,      \* the current page (the local variable searchSet)
    nextURL,        \* the local variable nextURL (NoURL for nil)
    pResult,        \* what Paginate returned (Nil for nil), NotReturned before
    consumed,       \* the pages consumeFunc was called with, in call order
    consumeResults, \* what consumeFunc returned, in call order
    requests,       \* the URLs SearchWithContext was called with, in call order
    fetchResults,   \* what SearchWithContext returned, in call order
    served,         \* the pages of the result set seen so far: initial page, then fetched
    \* ---- one exchange: Read/Create/Update, then BaseClient.doRequest
    xpc,            \* "idle" | "ready" | "send" | "post" | "read" | "process" | "parse" |
                    \* "done" | "panic"
    callerConfig,   \* the Config the caller passed to New (NilConfig for nil)
    config,         \* BaseClient.config
    urls,           \* the *url.URL values the caller holds and passes to AtUrl
    call,           \* the operation called and its arguments
    httpRequest,    \* the request being built, then sent
    opts,           \* the options of the call, the operation's own first
    target,         \* the caller's target: [kind, value]
    sent,           \* the requests handed to httpClient.Do, in order
    sentBy,         \* the call each of them was sent by
    httpResponse,   \* the response the transport returned (NoResponse before)
    bodyState,      \* httpResponse.Body: "none" | "open" | "closed"
    bytesRead,      \* bytes read from httpResponse.Body
    data,           \* the bytes read: [len, json]
    handlerCalls,   \* the calls of config.Non2xxStatusHandler: [status, body]
    log,            \* the steps of the exchange, in order
    optionResults,  \* what the post-request and post-parse options returned, in order
    xErr            \* what the operation returned (Nil for nil), NotReturned before

cvars == <<cpc, cData, cForce, cStatus, cErr>>
pvars == <<ppc, maxIterations, i, searchSet, nextURL, pResult, consumed,
           consumeResults, requests, fetchResults, served>>
xvars == <<xpc, callerConfig, config, urls, call, httpRequest, opts, target, sent,
           sentBy, httpResponse, bodyState, bytesRead, data, handlerCalls, log,
           optionResults, xErr>>
vars == <<cvars, pvars, xvars>>

Nil == [kind |-> "nil"]
NotReturned == [kind |-> "notReturned"]

-----------------------------------------------------------------------------
(* Strings whose case matters are sequences of one-character strings.      *)

UpperCase == <<"A","B","C","D","E","F","G","H","I","J","K","L","M",
               "N","O","P","Q","R","S","T","U","V","W","X","Y","Z">>
LowerCase == <<"a","b","c","d","e","f","g","h","i","j","k","l","m",
               "n","o","p","q","r","s","t","u","v","w","x","y","z">>

\* One character folded to lower case (ASCII letters; other characters unchanged).
FoldChar(c) ==
    IF \E k \in 1..Len(UpperCase) : UpperCase[k] = c
    THEN LowerCase[CHOOSE k \in 1..Len(UpperCase) : UpperCase[k] = c]
    ELSE c

\* strings.EqualFold(s, t)
EqualFold(s, t) ==
    /\ Len(s) = Len(t)
    /\ \A k \in 1..Len(s) : FoldChar(s[k]) = FoldChar(t[k])

OperationOutcomeName ==
    <<"O","p","e","r","a","t","i","o","n","O","u","t","c","o","m","e">>

-----------------------------------------------------------------------------
(* Response bodies.  A body is its length in bytes and what the bytes are   *)
(* as JSON: not JSON at all, the value null, a value that is no object, or  *)
(* an object with its resourceType and issue members.                       *)

MaxIssues == 2
MaxBodyLen == 2

Severities == {"fatal", "error", "warning", "information"}

ResourceTypeStrings ==
    { OperationOutcomeName,
      <<"o","p","e","r","a","t","i","o","n","o","u","t","c","o","m","e">>,
      <<"O","P","E","R","A","T","I","O","N","O","U","T","C","O","M","E">>,
      OperationOutcomeName \o <<"E","r","r","o","r">>,
      <<"P","a","t","i","e","n","t">>,
      <<>> }

\* The resourceType member: absent, a JSON number, or a JSON string.
ResourceTypeMembers ==
    {[t |-> "absent"], [t |-> "number"]}
        \cup {[t |-> "string", s |-> s] : s \in ResourceTypeStrings}

SeverityLists == UNION {[1..n -> Severities] : n \in 0..MaxIssues}

\* The issue member: absent, a value that does not decode as a list of issues,
\* or a list of issues (each reduced to its severity).
IssueMembers ==
    {[t |-> "absent"], [t |-> "malformed"]}
        \cup {[t |-> "array", sev |-> l] : l \in SeverityLists}

JsonObjects ==
    {[form |-> "object", resourceType |-> rt, issue |-> is] :
        rt \in ResourceTypeMembers, is \in IssueMembers}

JsonInvalid == [form |-> "invalid"]

JsonValues == {JsonInvalid, [form |-> "null"], [form |-> "array"]} \cup JsonObjects

\* Zero bytes are not JSON.
Bodies ==
    {[len |-> 0, json |-> JsonInvalid]}
        \cup {[len |-> n, json |-> j] : n \in 1..MaxBodyLen, j \in JsonValues}

HttpStatuses == {199, 200, 204, 299, 300, 404}

NilString == [t |-> "nil"]

\* var ooc OperationOutcomeError: the zero value
ZeroOperationOutcomeError ==
    [ResourceType |-> NilString, Issue |-> <<>>, HttpStatusCode |-> 0]

\* json.Unmarshal(data, &ooc): [ok, ooc]
UnmarshalOperationOutcome(json) ==
    CASE json.form = "invalid" -> [ok |-> FALSE, ooc |-> ZeroOperationOutcomeError]
      [] json.form = "array"   -> [ok |-> FALSE, ooc |-> ZeroOperationOutcomeError]
      [] json.form = "null"    -> [ok |-> TRUE, ooc |-> ZeroOperationOutcomeError]
      [] json.form = "object"  ->
            IF json.resourceType.t = "number" \/ json.issue.t = "malformed"
            THEN [ok |-> FALSE, ooc |-> ZeroOperationOutcomeError]
            ELSE [ok |-> TRUE,
                  ooc |-> [ResourceType |->
                               IF json.resourceType.t = "string"
                               THEN [t |-> "string", s |-> json.resourceType.s]
                               ELSE NilString,
                           Issue |-> IF json.issue.t = "array"
                                     THEN json.issue.sev ELSE <<>>,
                           HttpStatusCode |-> 0]]

IsOperationOutcomeCaseSensitive(r) ==
    /\ r.ResourceType # NilString
    /\ r.ResourceType.s = OperationOutcomeName

\* OperationOutcomeError.IsOperationOutcome
IsOperationOutcome(r) ==
    IF r.ResourceType = NilString
    THEN FALSE
    ELSE EqualFold(r.ResourceType.s, OperationOutcomeName)

\* OperationOutcomeError.ContainsError
ContainsError(r) ==
    \E k \in 1..Len(r.Issue) : r.Issue[k] = "fatal" \/ r.Issue[k] = "error"

OperationOutcomeError(ooc, httpStatusCode) ==
    [kind |-> "OperationOutcomeError",
     ResourceType |-> ooc.ResourceType,
     Issue |-> ooc.Issue,
     HttpStatusCode |-> httpStatusCode]

\* checkForOperationOutcomeError(data, errorEvenWithoutIssue, httpStatusCode)
checkForOperationOutcomeError(body, errorEvenWithoutIssue, httpStatusCode) ==
    IF body.len = 0
    THEN Nil
    ELSE LET u == UnmarshalOperationOutcome(body.json) IN
         IF ~u.ok
         THEN Nil
         ELSE IF IsOperationOutcome(u.ooc)
                 /\ (errorEvenWithoutIssue \/ ContainsError(u.ooc))
              THEN OperationOutcomeError(u.ooc, httpStatusCode)
              ELSE Nil

\* The values of the variables of a part that a specification does not use.
ClassifyIdle ==
    /\ cpc = "idle"
    /\ cData = [len |-> 0, json |-> JsonInvalid]
    /\ cForce = FALSE
    /\ cStatus = 0
    /\ cErr = NotReturned

PaginateIdle ==
    /\ ppc = "idle"
    /\ maxIterations = 0
    /\ i = 0
    /\ searchSet = <<>>
    /\ nextURL = <<>>
    /\ pResult = NotReturned
    /\ consumed = <<>>
    /\ consumeResults = <<>>
    /\ requests = <<>>
    /\ fetchResults = <<>>
    /\ served = <<>>

ExchangeIdle ==
    /\ xpc = "idle"
    /\ callerConfig = <<>>
    /\ config = <<>>
    /\ urls = <<>>
    /\ call = <<>>
    /\ sentBy = <<>>
    /\ optionResults = <<>>
    /\ httpRequest = <<>>
    /\ opts = <<>>
    /\ target = <<>>
    /\ sent = <<>>
    /\ httpResponse = <<>>
    /\ bodyState = "none"
    /\ bytesRead = 0
    /\ data = <<>>
    /\ handlerCalls = <<>>
    /\ log = <<>>
    /\ xErr = NotReturned

-----------------------------------------------------------------------------
(* Paginate.  A page (fhir.Bundle) is its link list and an id: the server   *)
(* numbers the pages of a result set 1, 2, ... in the order it serves them. *)

MaxIterations == 4
MaxFetches == 3
DefaultMaxIterations == 100

Link(relation, url) == [Relation |-> relation, Url |-> url]

\* A parsed URL (*url.URL): scheme, host, path segments, query pairs.
URL(scheme, host, path) ==
    [Scheme |-> scheme, Host |-> host, Path |-> path, RawQuery |-> <<>>]

\* url.Parse on the link URLs of the model: [ok, url] with url the parsed URL.
UrlParse(s) ==
    CASE s = "http://example.com/fhir/page2" ->
            [ok |-> TRUE, url |-> URL("http", "example.com", <<"fhir", "page2">>)]
      [] s = "http://example.com/fhir/page3" ->
            [ok |-> TRUE, url |-> URL("http", "example.com", <<"fhir", "page3">>)]
      [] s = "http://example.com/fhir/current" ->
            [ok |-> TRUE, url |-> URL("http", "example.com", <<"fhir", "current">>)]
      [] s = "http://example.com/fhir/prev" ->
            [ok |-> TRUE, url |-> URL("http", "example.com", <<"fhir", "prev">>)]
      [] OTHER -> [ok |-> FALSE, url |-> <<>>]

\* The link lists a page of the model may carry.
LinkLists ==
    { <<>>,
      <<Link("self", "http://example.com/fhir/current")>>,
      <<Link("next", "http://example.com/fhir/page2")>>,
      <<Link("self", "http://example.com/fhir/current"),
        Link("next", "http://example.com/fhir/page3"),
        Link("prev", "http://example.com/fhir/prev")>>,
      <<Link("next", "http://example.com/fhir/page2"),
        Link("next", "http://example.com/fhir/page3")>>,
      <<Link("next", "http://example.com/fhir/page3"),
        Link("self", "http://example.com/fhir/current"),
        Link("next", "http://example.com/fhir/page2")>>,
      <<Link("next", "://invalid-url")>>,
      <<Link("next", "://invalid-url"),
        Link("next", "http://example.com/fhir/page2")>>,
      <<Link("next", "http://example.com/fhir/page2"),
        Link("next", "://invalid-url")>> }

Bundle(id, link) == [ID |-> id, Link |-> link]

\* fhir.Bundle{}
EmptyBundle == Bundle(0, <<>>)

NoURL == <<>>

\* WithMaxIterations(max) applied to the options
WithMaxIterations(max, options) == [options EXCEPT !.maxIterations = max]

\* The opts a caller may pass: none, or one WithMaxIterations.
PaginationOptLists ==
    {<<>>} \cup {<<m>> : m \in -1..MaxIterations}

\* options := &paginationOptions{maxIterations: 100}; for each opt: opt(options)
RECURSIVE ApplyPaginationOptions(_, _)
ApplyPaginationOptions(os, options) ==
    IF os = <<>>
    THEN options
    ELSE ApplyPaginationOptions(Tail(os), WithMaxIterations(Head(os), options))

PaginationOptions(os) ==
    ApplyPaginationOptions(os, [maxIterations |-> DefaultMaxIterations])

\* What consumeFunc may return.
ConsumerErrors == {[kind |-> "consumer", id |-> 1], [kind |-> "consumer", id |-> 2]}
ConsumeOutcomes == [proceed : BOOLEAN, err : {Nil} \cup ConsumerErrors]

\* What SearchWithContext may return: the error of a failed exchange, or nil
\* with the page decoded into the target.
FetchErrors == {[kind |-> "requestFailed"], [kind |-> "OperationOutcomeError"]}
FetchOutcomes ==
    {[err |-> e, link |-> <<>>] : e \in FetchErrors}
        \cup {[err |-> Nil, link |-> l] : l \in LinkLists}

MaxIterationsError(max) == [kind |-> "maxIterations", n |-> max]
InvalidNextLinkError(s) == [kind |-> "invalidNextLink", url |-> s]
QueryNextPageFailedUnwrapped(u, cause) == cause

\* fmt.Errorf("pagintate: query next page failed (url=%s): %w", nextURL, err)
QueryNextPageFailedError(u, cause) ==
    [kind |-> "queryNextPageFailed", url |-> u, cause |-> cause]

CeilingReachedAtMax(iter, max) == iter = max

\* if i == options.maxIterations-1
CeilingReached(iter, max) == iter = max - 1

ConsumeReturnIgnoresProceed(outcome) ==
    IF outcome.err # Nil
    THEN [returns |-> TRUE, value |-> outcome.err]
    ELSE [returns |-> FALSE, value |-> Nil]

ConsumeReturnWraps(outcome) ==
    IF outcome.err # Nil
    THEN [returns |-> TRUE, value |-> [kind |-> "wrapped", cause |-> outcome.err]]
    ELSE [returns |-> ~outcome.proceed, value |-> Nil]

\* if proceed, err := consumeFunc(&searchSet); err != nil { return err }
\* else if !proceed { return nil }
ConsumeReturn(outcome) ==
    IF outcome.err # Nil
    THEN [returns |-> TRUE, value |-> outcome.err]
    ELSE IF ~outcome.proceed
         THEN [returns |-> TRUE, value |-> Nil]
         ELSE [returns |-> FALSE, value |-> Nil]

RECURSIVE ScanLinksAnyRelation(_, _, _, _)
ScanLinksAnyRelation(link, k, hasNext, url) ==
    IF k > Len(link)
    THEN [err |-> Nil, hasNext |-> hasNext, nextURL |-> url]
    ELSE LET p == UrlParse(link[k].Url) IN
         IF ~p.ok
         THEN [err |-> InvalidNextLinkError(link[k].Url),
               hasNext |-> hasNext, nextURL |-> NoURL]
         ELSE ScanLinksAnyRelation(link, k + 1, TRUE, p.url)

RECURSIVE ScanLinksFirstWins(_, _, _, _)
ScanLinksFirstWins(link, k, hasNext, url) ==
    IF k > Len(link)
    THEN [err |-> Nil, hasNext |-> hasNext, nextURL |-> url]
    ELSE IF link[k].Relation = "next"
         THEN LET p == UrlParse(link[k].Url) IN
              IF ~p.ok
              THEN [err |-> InvalidNextLinkError(link[k].Url),
                    hasNext |-> hasNext, nextURL |-> NoURL]
              ELSE [err |-> Nil, hasNext |-> TRUE, nextURL |-> p.url]
         ELSE ScanLinksFirstWins(link, k + 1, hasNext, url)

\* The scan of searchSet.Link from link k on, with the hasNext and nextURL held
\* so far: [err, hasNext, nextURL].
RECURSIVE ScanLinks(_, _, _, _)
ScanLinks(link, k, hasNext, url) ==
    IF k > Len(link)
    THEN [err |-> Nil, hasNext |-> hasNext, nextURL |-> url]
    ELSE IF link[k].Relation = "next"
         THEN LET p == UrlParse(link[k].Url) IN
              IF ~p.ok
              THEN [err |-> InvalidNextLinkError(link[k].Url),
                    hasNext |-> hasNext, nextURL |-> NoURL]
              ELSE ScanLinks(link, k + 1, TRUE, p.url)
         ELSE ScanLinks(link, k + 1, hasNext, url)

InitPaginate ==
    /\ ppc = "loop"
    /\ maxIterations \in {PaginationOptions(o).maxIterations : o \in PaginationOptLists}
    /\ i = 0
    /\ searchSet \in {Bundle(1, l) : l \in LinkLists}
    /\ nextURL = NoURL
    /\ pResult = NotReturned
    /\ consumed = <<>>
    /\ consumeResults = <<>>
    /\ requests = <<>>
    /\ fetchResults = <<>>
    /\ served = <<searchSet>>
    /\ ClassifyIdle
    /\ ExchangeIdle

PaginateReturn(value) ==
    /\ pResult' = value
    /\ ppc' = "done"

\* for i := 0; i < options.maxIterations; i++: the condition fails; return nil
PaginateLoopExit ==
    /\ ppc = "loop"
    /\ ~(i < maxIterations)
    /\ PaginateReturn(Nil)
    /\ UNCHANGED <<maxIterations, i, searchSet, nextURL, consumed, consumeResults,
                   requests, fetchResults, served, cvars, xvars>>

\* the ceiling check at the head of the loop body
PaginateCeiling ==
    /\ ppc = "loop"
    /\ i < maxIterations
    /\ CeilingReached(i, maxIterations)
    /\ PaginateReturn(MaxIterationsError(maxIterations))
    /\ UNCHANGED <<maxIterations, i, searchSet, nextURL, consumed, consumeResults,
                   requests, fetchResults, served, cvars, xvars>>

\* consumeFunc(&searchSet), then the scan for the "next" link
PaginateConsume ==
    /\ ppc = "loop"
    /\ i < maxIterations
    /\ ~CeilingReached(i, maxIterations)
    /\ \E outcome \in ConsumeOutcomes :
          LET r == ConsumeReturn(outcome)
              scan == ScanLinks(searchSet.Link, 1, FALSE, nextURL)
          IN  /\ consumed' = Append(consumed, searchSet)
              /\ consumeResults' = Append(consumeResults, outcome)
              /\ IF r.returns
                 THEN /\ PaginateReturn(r.value)
                      /\ UNCHANGED <<searchSet, nextURL>>
                 ELSE IF scan.err # Nil
                 THEN /\ PaginateReturn(scan.err)
                      /\ UNCHANGED <<searchSet, nextURL>>
                 ELSE IF ~scan.hasNext
                 THEN /\ PaginateReturn(Nil)
                      /\ UNCHANGED <<searchSet, nextURL>>
                 ELSE /\ searchSet' = EmptyBundle
                      /\ nextURL' = scan.nextURL
                      /\ ppc' = "fetch"
                      /\ UNCHANGED pResult
    /\ UNCHANGED <<maxIterations, i, requests, fetchResults, served, cvars, xvars>>

\* fhirClient.SearchWithContext(ctx, "", nil, &searchSet, AtUrl(nextURL)), i++
PaginateFetch ==
    /\ ppc = "fetch"
    /\ Len(requests) < MaxFetches
    /\ \E outcome \in FetchOutcomes :
          /\ requests' = Append(requests, nextURL)
          /\ fetchResults' = Append(fetchResults, outcome.err)
          /\ IF outcome.err # Nil
             THEN /\ PaginateReturn(QueryNextPageFailedError(nextURL, outcome.err))
                  /\ UNCHANGED <<searchSet, served, i>>
             ELSE /\ searchSet' = Bundle(Len(served) + 1, outcome.link)
                  /\ served' = Append(served, searchSet')
                  /\ i' = i + 1
                  /\ ppc' = "loop"
                  /\ UNCHANGED pResult
    /\ UNCHANGED <<maxIterations, nextURL, consumed, consumeResults, cvars, xvars>>

NextPaginate ==
    \/ PaginateLoopExit
    \/ PaginateCeiling
    \/ PaginateConsume
    \/ PaginateFetch

SpecPaginate == InitPaginate /\ [][NextPaginate]_vars

\* The links of a page with relation "next".
NextLinks(page) == {k \in 1..Len(page.Link) : page.Link[k].Relation = "next"}

CarriesNext(page) ==
    /\ NextLinks(page) # {}
    /\ \A k \in NextLinks(page) : UrlParse(page.Link[k].Url).ok

\* The URL of the last "next" link of a page that carries one.
NextLinkURL(page) ==
    UrlParse(page.Link[CHOOSE k \in NextLinks(page) :
                          \A j \in NextLinks(page) : j <= k].Url).url

ProceedAlways ==
    \A k \in 1..Len(consumeResults) :
        consumeResults[k] = [proceed |-> TRUE, err |-> Nil]

FetchesSucceed == \A k \in 1..Len(fetchResults) : fetchResults[k] = Nil

\* The result set seen so far is one of n pages: pages 1..n-1 each carry a
\* "next" link and page n carries none; the consumer always proceeds and every
\* fetch succeeds.
ResultSetOf(n) ==
    /\ Len(served) = n
    /\ \A k \in 1..(n - 1) : CarriesNext(served[k])
    /\ NextLinks(served[n]) = {}
    /\ ProceedAlways
    /\ FetchesSucceed

PaginatedAll(n) ==
    /\ pResult = Nil
    /\ consumed = served
    /\ \A k \in 1..n : consumed[k].ID = k
    /\ Len(requests) = n - 1
    /\ \A k \in 1..(n - 1) : requests[k] = NextLinkURL(served[k])

AlwaysNext ==
    /\ \A k \in 1..Len(served) : CarriesNext(served[k])
    /\ ProceedAlways
    /\ FetchesSucceed

\* C2: for maxIterations M >= 1, consumeFunc is never called an M-th time;
\* against a server whose every page carries a "next" link Paginate returns the
\* max-iterations error naming M after exactly M-1 consume calls and at most
\* M-1 fetches.
C2_IterationCeiling ==
    maxIterations >= 1 =>
        /\ Len(consumed) <= maxIterations - 1
        /\ (ppc = "done" /\ AlwaysNext) =>
              /\ pResult = [kind |-> "maxIterations", n |-> maxIterations]
              /\ Len(consumed) = maxIterations - 1
              /\ Len(requests) <= maxIterations - 1

C2_Witness ==
    /\ ppc = "done"
    /\ AlwaysNext
    /\ maxIterations = 3
    /\ pResult.kind = "maxIterations"
    /\ Len(consumed) = 2
    /\ Len(requests) = 2

\* C3: once consumeFunc has returned (false, nil) on a page, Paginate has
\* returned nil; that call is the last consume call and no fetch follows it,
\* whether or not the page carries a "next" link.
C3_StopOnFalse ==
    \A k \in 1..Len(consumeResults) :
        consumeResults[k] = [proceed |-> FALSE, err |-> Nil] =>
            /\ ppc = "done"
            /\ pResult = Nil
            /\ Len(consumeResults) = k
            /\ Len(requests) = k - 1

C3_Witness ==
    /\ ppc = "done"
    /\ Len(consumeResults) = 2
    /\ consumeResults[2] = [proceed |-> FALSE, err |-> Nil]
    /\ CarriesNext(consumed[2])
    /\ Len(requests) = 1

\* C4: once consumeFunc has returned a non-nil error, with either continue
\* flag, Paginate has returned exactly that error; that call is the last
\* consume call and no fetch follows it.
C4_ConsumerErrorVerbatim ==
    \A k \in 1..Len(consumeResults) :
        consumeResults[k].err # Nil =>
            /\ ppc = "done"
            /\ pResult = consumeResults[k].err
            /\ Len(consumeResults) = k
            /\ Len(requests) = k - 1

C4_Witness ==
    /\ ppc = "done"
    /\ Len(consumeResults) = 2
    /\ consumeResults[2].proceed
    /\ consumeResults[2].err \in ConsumerErrors
    /\ CarriesNext(consumed[2])
    /\ pResult = consumeResults[2].err

-----------------------------------------------------------------------------
(* SpecClassify: the classifier called once on inputs drawn from the       *)
(* bounded sets.                                                           *)

InitClassify ==
    /\ cpc = "call"
    /\ cData \in Bodies
    /\ cForce \in BOOLEAN
    /\ cStatus \in HttpStatuses
    /\ cErr = NotReturned
    /\ PaginateIdle
    /\ ExchangeIdle

ClassifyCall ==
    /\ cpc = "call"
    /\ cErr' = checkForOperationOutcomeError(cData, cForce, cStatus)
    /\ cpc' = "returned"
    /\ UNCHANGED <<cData, cForce, cStatus, pvars, xvars>>

NextClassify == ClassifyCall

SpecClassify == InitClassify /\ [][NextClassify]_vars

\* C6: the classifier returns an error exactly when the body is non-empty,
\* decodes as an outcome structure, its resourceType is "OperationOutcome" in
\* any letter case, and forceError is set or some issue is error or fatal; a
\* returned error carries the given HTTP status.
C6_ParsesAsOutcome(json) ==
    \/ json.form = "null"
    \/ /\ json.form = "object"
       /\ json.resourceType.t \in {"absent", "string"}
       /\ json.issue.t \in {"absent", "array"}

C6_NamedOperationOutcome(json) ==
    /\ json.form = "object"
    /\ json.resourceType.t = "string"
    /\ Len(json.resourceType.s) = Len(OperationOutcomeName)
    /\ \A k \in 1..Len(OperationOutcomeName) :
          FoldChar(json.resourceType.s[k]) = FoldChar(OperationOutcomeName[k])

C6_HasErrorIssue(json) ==
    /\ json.form = "object"
    /\ json.issue.t = "array"
    /\ \E k \in DOMAIN json.issue.sev : json.issue.sev[k] \in {"error", "fatal"}

C6_ClassifierIff ==
    cpc = "returned" =>
        /\ (cErr # Nil) <=>
              /\ cData.len > 0
              /\ C6_ParsesAsOutcome(cData.json)
              /\ C6_NamedOperationOutcome(cData.json)
              /\ (cForce \/ C6_HasErrorIssue(cData.json))
        /\ cErr # Nil =>
              /\ cErr.kind = "OperationOutcomeError"
              /\ cErr.HttpStatusCode = cStatus

\* An outcome in another letter case with only warning/information issues:
\* nil without forceError, an error with it.
C6_Witness ==
    /\ cpc = "returned"
    /\ cForce
    /\ cErr # Nil
    /\ cData.json.form = "object"
    /\ cData.json.resourceType.t = "string"
    /\ cData.json.resourceType.s # OperationOutcomeName
    /\ cData.json.issue.t = "array"
    /\ Len(cData.json.issue.sev) = 2
    /\ \A k \in 1..2 : cData.json.issue.sev[k] \in {"warning", "information"}

-----------------------------------------------------------------------------
(* One exchange: New, Read/Update and BaseClient.doRequest.                 *)

MaxLimit == 2
MaxOpts == 2
MaxCalls == 2

FhirJsonMediaType == "application/fhir+json"

Min(a, b) == IF a < b THEN a ELSE b

\* DefaultConfig()
DefaultConfig ==
    [MaxResponseSize |-> 10 * 1024 * 1024, Non2xxStatusHandler |-> FALSE]

NilConfig == [nil |-> TRUE]

\* The configs a caller may pass to New: nil, or a Config with a maximum
\* response size (an int: 0 when unset, possibly negative) and with or without
\* a non-2xx handler.
ConfigInputs ==
    {NilConfig} \cup [MaxResponseSize : -1..MaxLimit, Non2xxStatusHandler : BOOLEAN]

\* New(fhirBaseURL, httpClient, config).config
New(cfg) ==
    IF cfg # NilConfig
    THEN IF cfg.MaxResponseSize = 0
         THEN [cfg EXCEPT !.MaxResponseSize = DefaultConfig.MaxResponseSize]
         ELSE cfg
    ELSE DefaultConfig

BaseURL == URL("http", "example.com", <<"fhir">>)

\* url.Parse on the path strings of the model: an absolute URL, a relative
\* reference, or a string it rejects (it then returns a nil *url.URL).
PathParse(path) ==
    CASE path = "http://example.com/fhir/Resource/123" ->
            [ok |-> TRUE, abs |-> TRUE,
             url |-> URL("http", "example.com", <<"fhir", "Resource", "123">>)]
      [] path = "Resource/123" ->
            [ok |-> TRUE, abs |-> FALSE, url |-> URL("", "", <<"Resource", "123">>)]
      [] path = "123" ->
            [ok |-> TRUE, abs |-> FALSE, url |-> URL("", "", <<"123">>)]
      [] OTHER -> [ok |-> FALSE, abs |-> FALSE, url |-> <<>>]

Paths == {"Resource/123", "http://example.com/fhir/Resource/123", "://invalid-url"}

\* A relative path and a string url.Parse rejects.
ExchangePaths == {"Resource/123", "://invalid-url"}

\* The elements of a path string as JoinPath appends them.
PathSegments(path) ==
    CASE path = "Resource/123" -> <<"Resource", "123">>
      [] OTHER -> <<path>>

ClientPathUnjoined(path) ==
    [BaseURL EXCEPT !.Path = PathSegments(path)]

\* BaseClient.Path(path): baseURL.JoinPath(path), a new URL
ClientPath(path) ==
    [BaseURL EXCEPT !.Path = @ \o PathSegments(path)]

\* The query of a URL (RawQuery) is its sequence of segments: pairs, and
\* segments url.ParseQuery rejects (a value holding ";", a broken escape).
Pair(k, v) == [k |-> k, v |-> v, ok |-> TRUE]
Malformed(k, v) == [k |-> k, v |-> v, ok |-> FALSE]

\* The query keys of the model, in the order sort.Strings puts them.
QueryKeys == <<"_count", "_id", "name">>
QueryKeySet == {QueryKeys[n] : n \in 1..Len(QueryKeys)}
QueryValues == {"1", "123"}

\* r.URL.Query(): url.ParseQuery(RawQuery), which silently discards malformed
\* pairs; the values of a key in the order of their appearance.
Query(u) ==
    [k \in QueryKeySet |->
        LET sel == SelectSeq(u.RawQuery, LAMBDA e : e.ok /\ e.k = k)
        IN  [j \in 1..Len(sel) |-> sel[j].v]]

\* url.Values.Add(key, value)
ValuesAdd(q, k, v) == [q EXCEPT ![k] = Append(@, v)]

\* url.Values.Encode(): the keys sorted, the values of a key in their order
RECURSIVE Encode(_, _)
Encode(q, n) ==
    IF n > Len(QueryKeys)
    THEN <<>>
    ELSE [j \in 1..Len(q[QueryKeys[n]]) |-> Pair(QueryKeys[n], q[QueryKeys[n]][j])]
             \o Encode(q, n + 1)

\* The *url.URL values the caller holds, by name, before any call.
CallerURLs ==
    [u |-> URL("http", "example.com", <<"fhir", "Patient">>),
     v |-> [URL("http", "example.com", <<"fhir", "Task">>) EXCEPT
               !.RawQuery = <<Pair("name", "1"), Malformed("name", "a;b"),
                              Pair("_id", "123")>>]]

\* A *url.URL given to AtUrl: one the call has just made (its value), or one
\* the caller holds (its name).
NewURL(value) == [cell |-> "", value |-> value]
CallerURL(name) == [cell |-> name, value |-> <<>>]

HeaderKeys == {"Accept", "Cache-Control", "Content-Type", "X-Custom"}
EmptyHeader == [k \in HeaderKeys |-> <<>>]

\* http.Header.Add, Set, Del
HeaderAdd(h, k, v) == [h EXCEPT ![k] = Append(@, v)]
HeaderSet(h, k, v) == [h EXCEPT ![k] = <<v>>]
HeaderDel(h, k) == [h EXCEPT ![k] = <<>>]

\* addHeaderValueIfNotPresent(&header, key, value): appends the value unless
\* that exact value is already among the key's values.
addHeaderValueIfNotPresent(h, k, v) ==
    IF \E j \in 1..Len(h[k]) : h[k][j] = v THEN h ELSE HeaderAdd(h, k, v)

\* setHeaderValueIfNotPresent(&header, key, value): writes the value only
\* when the key has no value at all.
setHeaderValueIfNotPresent(h, k, v) ==
    IF Len(h[k]) = 0 THEN HeaderSet(h, k, v) ELSE h

\* The values given for one key, added one by one.
RECURSIVE AddHeaderValues(_, _, _, _)
AddHeaderValues(h, k, vs, n) ==
    IF n > Len(vs)
    THEN h
    ELSE AddHeaderValues(addHeaderValueIfNotPresent(h, k, vs[n]), k, vs, n + 1)

\* The keys of a header in some order (the keys do not affect one another).
HeaderKeyOrder == <<"Accept", "Cache-Control", "Content-Type", "X-Custom">>

\* RequestHeaders(headers) applied to the header of the request.
RECURSIVE AddHeaders(_, _, _)
AddHeaders(h, headers, n) ==
    IF n > Len(HeaderKeyOrder)
    THEN h
    ELSE AddHeaders(AddHeaderValues(h, HeaderKeyOrder[n], headers[HeaderKeyOrder[n]], 1),
                    headers, n + 1)

\* http.NewRequestWithContext(ctx, method, url, body)
NewRequest(method, url, body) ==
    [Method |-> method, URL |-> url, Header |-> EmptyHeader, Body |-> body]

\* Options.  A pre-request option is a function of the request: the options
\* of the package (QueryParam, AtUrl, AtPath, RequestHeaders) and
\* caller-written ones that add, set or delete a header or replace the header
\* map.  Post-request and post-parse options are caller functions that return
\* an error or nil.
QueryParam(key, value) == [kind |-> "pre", fn |-> "QueryParam", key |-> key, value |-> value]
AtUrl(u) == [kind |-> "pre", fn |-> "AtUrl", url |-> u]
AtPath(path) == [kind |-> "pre", fn |-> "AtPath", path |-> path]
RequestHeaders(headers) == [kind |-> "pre", fn |-> "RequestHeaders", headers |-> headers]
HeaderOption(fn, k, v) == [kind |-> "pre", fn |-> fn, key |-> k, value |-> v]
PostRequestOption == [kind |-> "post"]
PostParseOption == [kind |-> "parse"]

\* The request while the pre-request options run: r is the request with the
\* value of its URL, alias names the caller's URL that r.URL points to ("" when
\* it points to a URL of the call's own) and held are the caller's URLs.
Pipeline(r, alias, held) == [r |-> r, alias |-> alias, urls |-> held]

\* r.URL.RawQuery = q.Encode(): written through the pointer r.URL
SetRawQuery(s, rawQuery) ==
    [r |-> [s.r EXCEPT !.URL.RawQuery = rawQuery],
     alias |-> s.alias,
     urls |-> IF s.alias = "" THEN s.urls
              ELSE [s.urls EXCEPT ![s.alias].RawQuery = rawQuery]]

\* fn(d, httpRequest) for a pre-request option
ApplyPreRequestOption(opt, s) ==
    CASE opt.fn = "QueryParam" ->
            SetRawQuery(s, Encode(ValuesAdd(Query(s.r.URL), opt.key, opt.value), 1))
      [] opt.fn = "AtUrl" ->
            IF opt.url.cell = ""
            THEN Pipeline([s.r EXCEPT !.URL = opt.url.value], "", s.urls)
            ELSE Pipeline([s.r EXCEPT !.URL = s.urls[opt.url.cell]], opt.url.cell, s.urls)
      [] opt.fn = "AtPath" ->
            Pipeline([s.r EXCEPT !.URL = ClientPath(opt.path)], "", s.urls)
      [] opt.fn = "RequestHeaders" ->
            [s EXCEPT !.r.Header = AddHeaders(@, opt.headers, 1)]
      [] opt.fn = "HeaderAdd" ->
            [s EXCEPT !.r.Header = HeaderAdd(@, opt.key, opt.value)]
      [] opt.fn = "HeaderSet" ->
            [s EXCEPT !.r.Header = HeaderSet(@, opt.key, opt.value)]
      [] opt.fn = "HeaderDel" -> [s EXCEPT !.r.Header = HeaderDel(@, opt.key)]
      [] opt.fn = "HeaderReplace" -> [s EXCEPT !.r.Header = EmptyHeader]

\* The option lists of up to n options over a set of options.
OptLists(universe, n) == UNION {[1..k -> universe] : k \in 0..n}

\* Options of the three kinds, to be mixed in any order.
PhaseOptions ==
    {HeaderOption("HeaderAdd", "X-Custom", "value"), PostRequestOption, PostParseOption}

\* Pre-request options that touch the headers or the URL.
RequestOptions ==
    { HeaderOption("HeaderAdd", "Accept", "application/xml"),
      HeaderOption("HeaderSet", "Accept", "application/xml"),
      HeaderOption("HeaderDel", "Accept", ""),
      HeaderOption("HeaderReplace", "", ""),
      AtPath("123") }

\* Options of the package that edit the headers: RequestHeaders with one key
\* or two, with values the request may already carry.
HeaderOptions ==
    { RequestHeaders([EmptyHeader EXCEPT !["Accept"] = <<"application/xml">>]),
      RequestHeaders([EmptyHeader EXCEPT !["Accept"] = <<FhirJsonMediaType>>]),
      RequestHeaders([EmptyHeader EXCEPT !["X-Custom"] = <<"value">>]),
      RequestHeaders([EmptyHeader EXCEPT !["X-Custom"] = <<"foo", "value", "foo">>,
                                         !["Cache-Control"] = <<"max-age=0">>]) }

\* Options of the package that edit the URL.
UrlOptions ==
    { QueryParam("_id", "123"), QueryParam("_id", "1"), QueryParam("_count", "1"),
      AtUrl(CallerURL("u")), AtUrl(CallerURL("v")), AtPath("123") }

Event(e, k) == [e |-> e, k |-> k]

RECURSIVE OptionEventsNoTypeCheck(_, _, _, _)
OptionEventsNoTypeCheck(os, kind, k, last) ==
    IF k > Len(os) \/ k > last
    THEN <<>>
    ELSE <<Event(kind, k)>> \o OptionEventsNoTypeCheck(os, kind, k + 1, last)

\* The indices of the options of one kind, and the events of running those up
\* to index last, in caller order.
RECURSIVE OptionEvents(_, _, _, _)
OptionEvents(os, kind, k, last) ==
    IF k > Len(os) \/ k > last
    THEN <<>>
    ELSE IF os[k].kind = kind
         THEN <<Event(kind, k)>> \o OptionEvents(os, kind, k + 1, last)
         ELSE OptionEvents(os, kind, k + 1, last)

OptionsOf(os, kind) == {k \in 1..Len(os) : os[k].kind = kind}

RECURSIVE ApplyPreRequestOptionsReversed(_, _, _)
ApplyPreRequestOptionsReversed(os, k, s) ==
    IF k > Len(os)
    THEN s
    ELSE IF os[k].kind = "pre"
         THEN ApplyPreRequestOption(os[k], ApplyPreRequestOptionsReversed(os, k + 1, s))
         ELSE ApplyPreRequestOptionsReversed(os, k + 1, s)

\* for _, opt := range opts { if fn, ok := opt.(PreRequestOption); ok { fn(d, httpRequest) } }
RECURSIVE ApplyPreRequestOptions(_, _, _)
ApplyPreRequestOptions(os, k, s) ==
    IF k > Len(os)
    THEN s
    ELSE IF os[k].kind = "pre"
         THEN ApplyPreRequestOptions(os, k + 1, ApplyPreRequestOption(os[k], s))
         ELSE ApplyPreRequestOptions(os, k + 1, s)

PrepareRequestAcceptLast(r, os, held) ==
    LET q == ApplyPreRequestOptions(os, 1, Pipeline(r, "", held))
    IN  [r |-> [q.r EXCEPT !.Header = HeaderAdd(@, "Accept", FhirJsonMediaType)],
         urls |-> q.urls]

\* doRequest up to the call of the transport: Accept is added, the
\* pre-request options run, and the request is created anew from the method,
\* URL and body of the result, keeping its headers.  (Every URL of the model
\* parses again, so the creation does not fail.)  The result is the request
\* and the caller's URLs as the options leave them.
PrepareRequest(r, os, held) ==
    LET a == [r EXCEPT !.Header = HeaderAdd(@, "Accept", FhirJsonMediaType)]
        q == ApplyPreRequestOptions(os, 1, Pipeline(a, "", held))
    IN  [r |-> [NewRequest(q.r.Method, q.r.URL, q.r.Body) EXCEPT !.Header = q.r.Header],
         urls |-> q.urls]

TargetKinds == {"struct", "bytes"}
\* What the target holds before the call.
InitialValue == [form |-> "initial"]
InitialTarget(kind) == [kind |-> kind, value |-> InitialValue]

NoResponse == <<>>
\* httpResponse.Body before it is read: its content is not known yet
UnreadBody == <<>>
NoData == <<>>
NoResource == <<>>

\* The JSON a resource is or encodes to, as far as DescribeResource looks:
\* no JSON at all, null, an array, or an object with its resourceType member.
PayloadObject(resourceType) == [form |-> "object", resourceType |-> resourceType]
ResourcePayloads ==
    {[form |-> "invalid"], [form |-> "null"], [form |-> "array"]}
        \cup {PayloadObject(rt) :
                rt \in {[t |-> "absent"], [t |-> "number"]}
                          \cup {[t |-> "string", s |-> s] : s \in {"", "Patient", "Task"}}}

\* The resources a caller may pass to Create and Update: a []byte (raw) with
\* any content, or a value that json.Marshal encodes (to JSON) or rejects.
Resources ==
    {[raw |-> TRUE, marshals |-> TRUE, payload |-> p] : p \in ResourcePayloads}
        \cup {[raw |-> FALSE, marshals |-> TRUE, payload |-> p] :
                p \in ResourcePayloads \ {[form |-> "invalid"]}}
        \cup {[raw |-> FALSE, marshals |-> FALSE, payload |-> [form |-> "null"]]}

\* A value with resourceType Patient and one that json.Marshal rejects.
ExchangeResources ==
    {[raw |-> FALSE, marshals |-> TRUE,
      payload |-> PayloadObject([t |-> "string", s |-> "Patient"])],
     [raw |-> FALSE, marshals |-> FALSE, payload |-> [form |-> "null"]]}

\* Byte slices: a JSON text, or the JSON string holding the base64 of bytes.
JsonBytes(payload) == [enc |-> "json", payload |-> payload]
Base64String(payload) == [enc |-> "base64", payload |-> payload]

\* json.Marshal(resource): [ok, data]; a []byte is encoded as a base64 string.
JsonMarshal(resource) ==
    IF resource.raw
    THEN [ok |-> TRUE, data |-> Base64String(resource.payload)]
    ELSE IF resource.marshals
         THEN [ok |-> TRUE, data |-> JsonBytes(resource.payload)]
         ELSE [ok |-> FALSE, data |-> <<>>]

MarshalError == [kind |-> "marshal"]
InvalidResourceError(resource, cause) ==
    [kind |-> "invalidResource", raw |-> resource.raw, cause |-> cause]
ResourceTypeNotPresentError(resource) ==
    [kind |-> "resourceTypeNotPresent", raw |-> resource.raw]

\* json.Unmarshal(data, &desc) for a ResourceDescription: [ok, Type]
UnmarshalDescription(payload) ==
    CASE payload.form \in {"invalid", "array"} -> [ok |-> FALSE, Type |-> ""]
      [] payload.form = "null" -> [ok |-> TRUE, Type |-> ""]
      [] payload.form = "object" ->
            CASE payload.resourceType.t = "absent" -> [ok |-> TRUE, Type |-> ""]
              [] payload.resourceType.t = "number" -> [ok |-> FALSE, Type |-> ""]
              [] payload.resourceType.t = "string" ->
                    [ok |-> TRUE, Type |-> payload.resourceType.s]

DescribeResourceAcceptsEmptyType(resource) ==
    LET m == JsonMarshal(resource)
        d == IF resource.raw THEN JsonBytes(resource.payload) ELSE m.data
    IN  IF ~resource.raw /\ ~m.ok
        THEN [err |-> InvalidResourceError(resource, "marshal"), Type |-> "", Data |-> <<>>]
        ELSE IF ~UnmarshalDescription(d.payload).ok
        THEN [err |-> InvalidResourceError(resource, "unmarshal"), Type |-> "", Data |-> <<>>]
        ELSE [err |-> Nil, Type |-> UnmarshalDescription(d.payload).Type, Data |-> d]

\* DescribeResource(resource): [err, Type, Data]
DescribeResource(resource) ==
    LET m == JsonMarshal(resource)
        d == IF resource.raw THEN JsonBytes(resource.payload) ELSE m.data
    IN  IF ~resource.raw /\ ~m.ok
        THEN [err |-> InvalidResourceError(resource, "marshal"), Type |-> "", Data |-> <<>>]
        ELSE IF ~UnmarshalDescription(d.payload).ok
        THEN [err |-> InvalidResourceError(resource, "unmarshal"), Type |-> "", Data |-> <<>>]
        ELSE IF UnmarshalDescription(d.payload).Type = ""
        THEN [err |-> ResourceTypeNotPresentError(resource), Type |-> "", Data |-> <<>>]
        ELSE [err |-> Nil, Type |-> UnmarshalDescription(d.payload).Type, Data |-> d]

InitExchange ==
    /\ xpc = "ready"
    /\ \E c \in ConfigInputs :
          /\ callerConfig = c
          /\ config = New(c)
    /\ urls = CallerURLs
    /\ call = <<>>
    /\ httpRequest = <<>>
    /\ opts = <<>>
    /\ target = <<>>
    /\ sent = <<>>
    /\ sentBy = <<>>
    /\ httpResponse = NoResponse
    /\ bodyState = "none"
    /\ bytesRead = 0
    /\ data = NoData
    /\ handlerCalls = <<>>
    /\ log = <<>>
    /\ optionResults = <<>>
    /\ xErr = NotReturned
    /\ ClassifyIdle
    /\ PaginateIdle

\* A call: the operation and its arguments.
Call(op, path, resource, userOpts, kind) ==
    [op |-> op, path |-> path, resource |-> resource, opts |-> userOpts, kind |-> kind]

\* What a call starts from: its own request, response, data and result.
BeginCall(c) ==
    /\ call' = c
    /\ target' = InitialTarget(c.kind)
    /\ httpResponse' = NoResponse
    /\ bodyState' = "none"
    /\ bytesRead' = 0
    /\ data' = NoData
    /\ optionResults' = <<>>
    /\ UNCHANGED <<callerConfig, config, sent, sentBy, handlerCalls, cvars, pvars>>

\* The operation hands its request and options to doRequest, which prepares
\* the request for the transport.
EnterDoRequest(c, r, os) ==
    /\ BeginCall(c)
    /\ opts' = os
    /\ httpRequest' = PrepareRequest(r, os, urls).r
    /\ urls' = PrepareRequest(r, os, urls).urls
    /\ log' = OptionEvents(os, "pre", 1, Len(os))
    /\ xpc' = "send"
    /\ xErr' = NotReturned

\* The operation ends before doRequest: it returns err (pc "done"), or it
\* does not return at all (pc "panic": a nil pointer dereference).
LeaveEarly(c, pc, err) ==
    /\ BeginCall(c)
    /\ opts' = <<>>
    /\ httpRequest' = <<>>
    /\ log' = <<>>
    /\ xpc' = pc
    /\ xErr' = err
    /\ UNCHANGED urls

\* BaseClient.ReadWithContext(ctx, path, target, opts...)
ReadWithContext(c) ==
    LET absUrl == PathParse(c.path)
        r == NewRequest("GET", BaseURL, "none")
    IN  IF ~absUrl.ok
        THEN LeaveEarly(c, "panic", NotReturned)
        ELSE EnterDoRequest(c,
                 [r EXCEPT !.Header = HeaderAdd(@, "Cache-Control", "no-cache")],
                 IF absUrl.abs
                 THEN <<AtUrl(NewURL(absUrl.url))>> \o c.opts
                 ELSE <<AtPath(c.path)>> \o c.opts)

\* BaseClient.CreateWithContext(ctx, resource, result, opts...)
CreateWithContext(c) ==
    LET desc == DescribeResource(c.resource)
        r == NewRequest("POST", BaseURL, desc.Data)
    IN  IF desc.err # Nil
        THEN LeaveEarly(c, "done", desc.err)
        ELSE EnterDoRequest(c,
                 [r EXCEPT !.Header = HeaderAdd(@, "Content-Type", FhirJsonMediaType)],
                 <<AtPath(desc.Type)>> \o c.opts)

\* BaseClient.UpdateWithContext(ctx, path, resource, result, opts...)
UpdateWithContext(c) ==
    LET m == JsonMarshal(c.resource)
        r == NewRequest("PUT", BaseURL, m.data)
    IN  IF ~m.ok
        THEN LeaveEarly(c, "done", MarshalError)
        ELSE EnterDoRequest(c,
                 [r EXCEPT !.Header = HeaderAdd(@, "Content-Type", FhirJsonMediaType)],
                 <<AtPath(c.path)>> \o c.opts)

\* The call c made.
Start(c) ==
    CASE c.op = "Read" -> ReadWithContext(c)
      [] c.op = "Create" -> CreateWithContext(c)
      [] c.op = "Update" -> UpdateWithContext(c)

\* The caller calls Read, Create or Update.
Read(paths, optLists) ==
    /\ xpc = "ready"
    /\ \E path \in paths, userOpts \in optLists, kind \in TargetKinds :
          Start(Call("Read", path, NoResource, userOpts, kind))

Create(resources, optLists) ==
    /\ xpc = "ready"
    /\ \E resource \in resources, userOpts \in optLists, kind \in TargetKinds :
          Start(Call("Create", "", resource, userOpts, kind))

Update(resources, optLists) ==
    /\ xpc = "ready"
    /\ \E resource \in resources, userOpts \in optLists, kind \in TargetKinds :
          Start(Call("Update", "Resource/123", resource, userOpts, kind))

\* The caller makes the call it has made once more, with the same arguments
\* and the same option values.
Again ==
    /\ xpc \in {"post", "done"}
    /\ Len(sent) < MaxCalls
    /\ Start(call)

\* What httpClient.Do may return: an error, or a response with a status.
TransportCauses == {"connection refused", "timeout"}
TransportOutcomes ==
    {[err |-> TRUE, cause |-> e, StatusCode |-> 0] : e \in TransportCauses}
        \cup {[err |-> FALSE, cause |-> "", StatusCode |-> c] : c \in HttpStatuses}

\* The transport of the calls that are followed up to the send only.
RequestOutcomes ==
    {[err |-> TRUE, cause |-> "timeout", StatusCode |-> 0],
     [err |-> FALSE, cause |-> "", StatusCode |-> 200]}

\* The response body stream: its length in bytes, and whether reading it past
\* its last byte ends in an error instead of EOF.
Streams == [len : 0..(MaxLimit + 2), broken : BOOLEAN]

\* What the bytes read may be as JSON.
ExchangeJsonValues ==
    { JsonInvalid,
      [form |-> "array"],
      [form |-> "object",
       resourceType |-> [t |-> "string", s |-> <<"P","a","t","i","e","n","t">>],
       issue |-> [t |-> "absent"]] }
      \cup {[form |-> "object",
             resourceType |-> [t |-> "string", s |-> OperationOutcomeName],
             issue |-> [t |-> "array", sev |-> l]] :
                l \in {<<>>, <<"warning">>, <<"error">>}}

TransportErrorUnwrapped(r, cause) == [kind |-> "cause", cause |-> cause]

\* fmt.Errorf("FHIR request failed (%s %s): %w", method, url, err)
TransportError(r, cause) ==
    [kind |-> "transport", Method |-> r.Method, URL |-> r.URL, cause |-> cause]
OptionError(phase, k) == [kind |-> "option", phase |-> phase, k |-> k]
ReadError(r) == [kind |-> "read", Method |-> r.Method, URL |-> r.URL]
RequestFailedError(r, status) ==
    [kind |-> "requestFailed", Method |-> r.Method, URL |-> r.URL, status |-> status]
SizeExceededError(limit, r, status) ==
    [kind |-> "sizeExceeded", limit |-> limit, Method |-> r.Method, URL |-> r.URL,
     status |-> status]
UnmarshalError(r, status) ==
    [kind |-> "unmarshal", Method |-> r.Method, URL |-> r.URL, status |-> status]

\* doRequest returns err; closes says whether the deferred Body.Close() has
\* been registered, events are the steps up to the return.
Return(err, events, closes) ==
    /\ xErr' = err
    /\ xpc' = "done"
    /\ log' = IF closes THEN Append(events, Event("close", 0)) ELSE events
    /\ bodyState' = IF closes THEN "closed" ELSE bodyState

\* httpResponse, err := d.httpClient.Do(httpRequest)
Send(outcomes) ==
    /\ xpc = "send"
    /\ sent' = Append(sent, httpRequest)
    /\ sentBy' = Append(sentBy, call)
    /\ \E o \in outcomes :
          IF o.err
          THEN /\ Return(TransportError(httpRequest, o.cause),
                         Append(log, Event("send", 0)), FALSE)
               /\ UNCHANGED httpResponse
          ELSE /\ httpResponse' = [StatusCode |-> o.StatusCode, Body |-> UnreadBody]
               /\ bodyState' = "open"
               /\ log' = Append(log, Event("send", 0))
               /\ xpc' = "post"
               /\ UNCHANGED xErr
    /\ UNCHANGED <<callerConfig, config, urls, call, httpRequest, opts, target,
                   bytesRead, data, handlerCalls, optionResults, cvars, pvars>>

\* What the options run returned: nil, but for the last when it failed.
OptionResults(events, err) ==
    [j \in 1..Len(events) |->
        [kind |-> events[j].e, k |-> events[j].k,
         err |-> IF j = Len(events) THEN err ELSE Nil]]

\* The options of one kind run in order, up to the first that returns an
\* error (failed = 0: none does): [err, events, results].
RunOptions(os, kind, failed) ==
    IF failed # 0
    THEN [err |-> OptionError(kind, failed),
          events |-> OptionEvents(os, kind, 1, failed),
          results |-> OptionResults(OptionEvents(os, kind, 1, failed),
                                    OptionError(kind, failed))]
    ELSE [err |-> Nil,
          events |-> OptionEvents(os, kind, 1, Len(os)),
          results |-> OptionResults(OptionEvents(os, kind, 1, Len(os)), Nil)]

RunPostRequestOptionsIgnoresError(os, failed) ==
    [err |-> Nil,
     events |-> OptionEvents(os, "post", 1, Len(os)),
     results |->
        [j \in 1..Len(OptionEvents(os, "post", 1, Len(os))) |->
            [kind |-> "post", k |-> OptionEvents(os, "post", 1, Len(os))[j].k,
             err |-> IF OptionEvents(os, "post", 1, Len(os))[j].k = failed
                     THEN OptionError("post", failed) ELSE Nil]]]

\* for _, opt := range opts { if fn, ok := opt.(PostRequestOption); ok {
\*     if err := fn(d, httpResponse); err != nil { return err } } }
RunPostRequestOptions(os, failed) == RunOptions(os, "post", failed)

\* The post-request options, in order; the first to return an error ends the
\* exchange (failed = 0: none fails).
PostRequest ==
    /\ xpc = "post"
    /\ \E failed \in {0} \cup OptionsOf(opts, "post") :
          LET run == RunPostRequestOptions(opts, failed)
          IN  /\ optionResults' = optionResults \o run.results
              /\ IF run.err # Nil
                 THEN Return(run.err, log \o run.events, FALSE)
                 ELSE /\ log' = log \o run.events
                      /\ xpc' = "read"
                      /\ UNCHANGED <<xErr, bodyState>>
    /\ UNCHANGED <<callerConfig, config, urls, call, httpRequest, opts, target, sent,
                   sentBy, httpResponse, bytesRead, data, handlerCalls, cvars, pvars>>

\* int64(d.config.MaxResponseSize+1)
ReadLimit(maxResponseSize) == maxResponseSize + 1

\* io.LimitReader(body, limit) read to its end: the bytes delivered
LimitedRead(stream, limit) ==
    IF limit <= 0 THEN 0 ELSE Min(stream.len, limit)

\* io.ReadAll fails when the stream breaks before the limit is reached.
ReadFails(stream, limit) == stream.broken /\ limit > 0 /\ stream.len < limit

\* defer httpResponse.Body.Close(); data, err := io.ReadAll(io.LimitReader(...))
ReadBody ==
    /\ xpc = "read"
    /\ \E stream \in Streams :
          LET limit == ReadLimit(config.MaxResponseSize)
              n == LimitedRead(stream, limit)
          IN  /\ bytesRead' = n
              /\ httpResponse' = [httpResponse EXCEPT !.Body = stream]
              /\ IF ReadFails(stream, limit)
                 THEN /\ Return(ReadError(httpRequest), Append(log, Event("read", 0)), TRUE)
                      /\ UNCHANGED data
                 ELSE /\ \E j \in ExchangeJsonValues :
                            data' = [len |-> n, json |-> IF n = 0 THEN JsonInvalid ELSE j]
                      /\ log' = Append(log, Event("read", 0))
                      /\ xpc' = "process"
                      /\ UNCHANGED <<xErr, bodyState>>
    /\ UNCHANGED <<callerConfig, config, urls, call, httpRequest, opts, target, sent,
                   sentBy, handlerCalls, optionResults, cvars, pvars>>

Non2xxNever(status) == FALSE

Non2xxFrom299(status) == status < 200 \/ status >= 299

\* httpResponse.StatusCode < 200 || httpResponse.StatusCode >= 300
Non2xx(status) == status < 200 \/ status >= 300

NotifyNon2xxWithoutBody(cfg, status, d, calls) ==
    IF cfg.Non2xxStatusHandler
    THEN Append(calls, [status |-> status, body |-> NoData])
    ELSE calls

\* if d.config.Non2xxStatusHandler != nil { d.config.Non2xxStatusHandler(httpResponse, data) }
NotifyNon2xx(cfg, status, d, calls) ==
    IF cfg.Non2xxStatusHandler
    THEN Append(calls, [status |-> status, body |-> d])
    ELSE calls

Non2xxErrorLenient(r, d, status) ==
    LET e == checkForOperationOutcomeError(d, FALSE, status)
    IN  IF e # Nil THEN e ELSE RequestFailedError(r, status)

\* The error of the non-2xx branch.
Non2xxError(r, d, status) ==
    LET e == checkForOperationOutcomeError(d, TRUE, status)
    IN  IF e # Nil THEN e ELSE RequestFailedError(r, status)

SizeExceededNever(d, maxResponseSize) == FALSE

SizeExceededAtLimit(d, maxResponseSize) == d.len >= maxResponseSize

\* len(data) > d.config.MaxResponseSize
SizeExceeded(d, maxResponseSize) == d.len > maxResponseSize

\* json.Unmarshal(data, target) for a target that is no *[]byte: [ok, value]
UnmarshalTarget(d) ==
    IF d.json.form \in {"invalid", "array"}
    THEN [ok |-> FALSE, value |-> InitialValue]
    ELSE [ok |-> TRUE, value |-> d.json]

\* The rest of doRequest up to the post-parse options: the status branch
\* (handler, then classifier), the size check, the outcome check and the
\* decoding into the target.
Process ==
    /\ xpc = "process"
    /\ LET status == httpResponse.StatusCode
           classified == Append(log, Event("classify", 0))
           decoded == Append(classified, Event("decode", 0))
       IN  IF Non2xx(status)
           THEN /\ handlerCalls' = NotifyNon2xx(config, status, data, handlerCalls)
                /\ Return(Non2xxError(httpRequest, data, status),
                          IF config.Non2xxStatusHandler
                          THEN log \o <<Event("handler", 0), Event("classify", 0)>>
                          ELSE classified,
                          TRUE)
                /\ UNCHANGED target
           ELSE /\ UNCHANGED handlerCalls
                /\ IF SizeExceeded(data, config.MaxResponseSize)
                   THEN /\ Return(SizeExceededError(config.MaxResponseSize, httpRequest, status),
                                  log, TRUE)
                        /\ UNCHANGED target
                   ELSE IF checkForOperationOutcomeError(data, FALSE, status) # Nil
                   THEN /\ Return(checkForOperationOutcomeError(data, FALSE, status),
                                  classified, TRUE)
                        /\ UNCHANGED target
                   ELSE IF target.kind = "bytes"
                   THEN /\ target' = [target EXCEPT !.value = data]
                        /\ log' = decoded
                        /\ xpc' = "parse"
                        /\ UNCHANGED <<xErr, bodyState>>
                   ELSE IF UnmarshalTarget(data).ok
                   THEN /\ target' = [target EXCEPT !.value = UnmarshalTarget(data).value]
                        /\ log' = decoded
                        /\ xpc' = "parse"
                        /\ UNCHANGED <<xErr, bodyState>>
                   ELSE /\ Return(UnmarshalError(httpRequest, status), classified, TRUE)
                        /\ UNCHANGED target
    /\ UNCHANGED <<callerConfig, config, urls, call, httpRequest, opts, sent, sentBy,
                   httpResponse, bytesRead, data, optionResults, cvars, pvars>>

\* The post-parse options, in order; the first to return an error ends the
\* exchange (failed = 0: none fails, and doRequest returns nil).
PostParse ==
    /\ xpc = "parse"
    /\ \E failed \in {0} \cup OptionsOf(opts, "parse") :
          LET run == RunOptions(opts, "parse", failed)
          IN  /\ optionResults' = optionResults \o run.results
              /\ Return(run.err, log \o run.events, TRUE)
    /\ UNCHANGED <<callerConfig, config, urls, call, httpRequest, opts, target, sent,
                   sentBy, httpResponse, bytesRead, data, handlerCalls, cvars, pvars>>

NextExchange ==
    \/ Read(ExchangePaths, OptLists(PhaseOptions, MaxOpts))
    \/ Create(ExchangeResources, OptLists(PhaseOptions, MaxOpts))
    \/ Update(ExchangeResources, OptLists(PhaseOptions, MaxOpts))
    \/ Send(TransportOutcomes)
    \/ PostRequest
    \/ ReadBody
    \/ Process
    \/ PostParse

SpecExchange == InitExchange /\ [][NextExchange]_vars

\* The option lists of the calls followed up to the send: options that edit
\* the headers, and options that edit the URL.
RequestOptLists ==
    OptLists(RequestOptions, MaxOpts) \cup OptLists(HeaderOptions, MaxOpts)
        \cup OptLists(UrlOptions, MaxOpts)

\* Calls up to the hand-over of the request to the transport, for callers
\* whose options edit the headers and the URL, and who repeat their call.
NextRequest ==
    \/ Read(Paths, RequestOptLists)
    \/ Create(Resources, RequestOptLists)
    \/ Update(ExchangeResources, RequestOptLists)
    \/ Send(RequestOutcomes)
    \/ Again

\* The configuration plays no part before the response: the client of these
\* calls has the default one.
InitRequest == InitExchange /\ callerConfig = NilConfig

SpecRequest == InitRequest /\ [][NextRequest]_vars

-----------------------------------------------------------------------------
(* Claims about one exchange.                                              *)

Responded == httpResponse # NoResponse
Happened(e) == \E p \in 1..Len(log) : log[p].e = e
BodyWasRead == Happened("read") /\ data # NoData

\* The bytes read are an operation outcome, whatever its issues.
C5_RecognizedOutcome ==
    /\ data.len > 0
    /\ data.json.form = "object"
    /\ data.json.resourceType.t = "string"
    /\ data.json.resourceType.s = OperationOutcomeName
    /\ data.json.issue.t \in {"absent", "array"}

C7_SizeCeiling ==
    config.MaxResponseSize > 0 =>
        /\ bytesRead <= config.MaxResponseSize + 1
        /\ (xpc = "done" /\ Responded /\ Happened("read")
              /\ httpResponse.StatusCode >= 200 /\ httpResponse.StatusCode < 300) =>
              IF httpResponse.Body.len > config.MaxResponseSize
              THEN xErr = [kind |-> "sizeExceeded",
                           limit |-> config.MaxResponseSize,
                           Method |-> httpRequest.Method,
                           URL |-> httpRequest.URL,
                           status |-> httpResponse.StatusCode]
              ELSE xErr.kind # "sizeExceeded"
        /\ (xpc = "done" /\ xErr.kind = "sizeExceeded") =>
              /\ httpResponse.StatusCode >= 200 /\ httpResponse.StatusCode < 300
              /\ httpResponse.Body.len > config.MaxResponseSize

\* One byte over the limit fails; the stream may be longer than what is read.
C7_Witness ==
    /\ xpc = "done"
    /\ Responded
    /\ Happened("read")
    /\ httpResponse.StatusCode = 200
    /\ config.MaxResponseSize = MaxLimit
    /\ httpResponse.Body.len = MaxLimit + 1
    /\ bytesRead = MaxLimit + 1
    /\ xErr.kind = "sizeExceeded"

\* C8: once the transport has returned a response, the response body has
\* been closed whenever the exchange has returned.
C8_BodyClosedOnEveryExit ==
    (xpc = "done" /\ Responded) => bodyState = "closed"

\* C10: an option runs only in the phase of its kind and, within a phase,
\* options run in caller order, each once: every pre-request option has run
\* when the request is sent, post-request options run after the send and all
\* have run when the body is read, post-parse options run after the decoding
\* and all have run when the exchange returns nil.
C10_Before(e1, e2) ==
    \A p, q \in 1..Len(log) : (log[p].e = e1 /\ log[q].e = e2) => p < q

C10_AllRan(kind) ==
    \A k \in 1..Len(opts) :
        opts[k].kind = kind => \E p \in 1..Len(log) : log[p] = [e |-> kind, k |-> k]

C10_OptionPhases ==
    /\ \A p \in 1..Len(log) :
          log[p].e \in {"pre", "post", "parse"} =>
              /\ log[p].k \in 1..Len(opts)
              /\ opts[log[p].k].kind = log[p].e
    /\ \A p, q \in 1..Len(log) :
          (p < q /\ log[p].e = log[q].e) => log[p].k < log[q].k
    /\ C10_Before("pre", "send")
    /\ C10_Before("send", "post")
    /\ C10_Before("post", "read")
    /\ C10_Before("decode", "parse")
    /\ Happened("send") => C10_AllRan("pre")
    /\ Happened("read") => C10_AllRan("post")
    /\ (xpc = "done" /\ xErr = Nil) =>
          /\ C10_AllRan("parse")
          /\ Happened("send") /\ Happened("read") /\ Happened("decode")

\* A call whose options come in the order post-parse, pre-request (after the
\* operation's own) has completed.
C10_Witness ==
    /\ xpc = "done"
    /\ xErr = Nil
    /\ Len(opts) = 3
    /\ opts[2].kind = "parse"
    /\ opts[3].kind = "pre"
    /\ Len(log) = 8

-----------------------------------------------------------------------------
(* Claims about the request handed to the transport.                       *)

AcceptValues(r) == {r.Header["Accept"][k] : k \in 1..Len(r.Header["Accept"])}

\* C9 as stated: every request handed to the transport carries the Accept
\* value application/fhir+json, whatever the pre-request options do to the
\* headers.
C9_AcceptAlways ==
    \A k \in 1..Len(sent) : "application/fhir+json" \in AcceptValues(sent[k])

\* The options of the call that delete or overwrite Accept or replace the
\* header map.
C9_RemovesAccept(o) ==
    /\ o.kind = "pre"
    /\ \/ o.fn = "HeaderReplace"
       \/ o.fn \in {"HeaderSet", "HeaderDel"} /\ o.key = "Accept"

\* C9 (amended): Accept is added before the pre-request options run; every
\* request handed to the transport, for reads and writes, has
\* application/fhir+json as its first Accept value unless one of the
\* pre-request options deletes or overwrites Accept or replaces the headers.
C9_AcceptUnlessRemoved ==
    \A k \in 1..Len(sent) :
        (\A j \in 1..Len(opts) : ~C9_RemovesAccept(opts[j])) =>
            /\ Len(sent[k].Header["Accept"]) >= 1
            /\ sent[k].Header["Accept"][1] = "application/fhir+json"

C9_Witness ==
    /\ Len(sent) = 1
    /\ sent[1].Method = "PUT"
    /\ Len(opts) = 3
    /\ opts[2] = AtPath("123")
    /\ opts[3] = HeaderOption("HeaderAdd", "Accept", "application/xml")
    /\ sent[1].Header["Accept"] = <<"application/fhir+json", "application/xml">>

-----------------------------------------------------------------------------
(* Claims about the failures of one exchange.                              *)

NoEventAfterSend ==
    /\ ~Happened("post") /\ ~Happened("read") /\ ~Happened("handler")
    /\ ~Happened("classify") /\ ~Happened("decode") /\ ~Happened("parse")

NothingRead ==
    /\ ~Happened("read") /\ bytesRead = 0 /\ data = NoData
    /\ ~Happened("handler") /\ handlerCalls = <<>>
    /\ ~Happened("classify") /\ ~Happened("decode") /\ ~Happened("parse")
    /\ target = InitialTarget(target.kind)

\* C11: when a post-request option returns an error, the exchange returns
\* that error itself, no later post-request option has run, the body has not
\* been read, the non-2xx handler has not been invoked, nothing has been
\* decoded and no post-parse option has run; and whatever the status of the
\* response, 2xx or not, the post-request options run: once the exchange is
\* past them, each has run unless an earlier one failed.
C11_PostRequestFailureShortCircuits ==
    /\ \A p \in 1..Len(optionResults) :
          (optionResults[p].kind = "post" /\ optionResults[p].err # Nil) =>
              /\ xpc = "done"
              /\ xErr = optionResults[p].err
              /\ p = Len(optionResults)
              /\ \A q \in 1..Len(log) :
                    log[q].e = "post" => log[q].k <= optionResults[p].k
              /\ NothingRead
    /\ (Responded /\ xpc # "post") =>
          \A k \in OptionsOf(opts, "post") :
              \E p \in 1..Len(optionResults) :
                  /\ optionResults[p].kind = "post"
                  /\ \/ optionResults[p].k = k
                     \/ optionResults[p].k < k /\ optionResults[p].err # Nil

\* The first of two post-request options fails on a 404 response.
C11_Witness ==
    /\ xpc = "done"
    /\ Responded
    /\ httpResponse.StatusCode = 404
    /\ config.Non2xxStatusHandler
    /\ Len(opts) = 3
    /\ opts[2].kind = "post"
    /\ opts[3].kind = "post"
    /\ optionResults = <<[kind |-> "post", k |-> 2, err |-> OptionError("post", 2)]>>
    /\ xErr = OptionError("post", 2)

\* C12: an exchange hands at most one request to the transport; when the
\* transport returns an error, the exchange returns that error wrapped with
\* the method and the URL of the request, and no post-request option, body
\* read, handler call, decoding or post-parse option follows the send.
C12_NoRetries ==
    /\ Len(sent) <= 1
    /\ \A p, q \in 1..Len(log) : (log[p].e = "send" /\ log[q].e = "send") => p = q
    /\ (Happened("send") /\ ~Responded) =>
          /\ xpc = "done"
          /\ xErr.kind = "transport"
          /\ xErr.cause \in TransportCauses
          /\ xErr.Method = sent[1].Method
          /\ xErr.URL = sent[1].URL
          /\ log[Len(log)].e = "send"
          /\ optionResults = <<>>
          /\ NoEventAfterSend
          /\ NothingRead

\* A Create whose request the transport fails to deliver.
C12_Witness ==
    /\ xpc = "done"
    /\ call.op = "Create"
    /\ Len(sent) = 1
    /\ ~Responded
    /\ xErr.kind = "transport"
    /\ xErr.cause = "timeout"
    /\ xErr.Method = "POST"
    /\ \E k \in 1..Len(opts) : opts[k].kind = "post"

Non2xxResponse ==
    Responded /\ (httpResponse.StatusCode < 200 \/ httpResponse.StatusCode >= 300)

\* What C13 says of every call of the handler: there is at most one in an
\* exchange, made only when a handler is configured and the status is non-2xx,
\* after the body has been read and before the classifier runs, with the
\* response's status and the bytes read; and the error of a non-2xx exchange
\* whose body has been read depends on the request, the status and the bytes
\* only, so it is the same with and without a handler.
C13_Observer ==
    /\ Len(handlerCalls) <= 1
    /\ Happened("handler") <=> handlerCalls # <<>>
    /\ \A j \in 1..Len(handlerCalls) :
          /\ config.Non2xxStatusHandler
          /\ Non2xxResponse
          /\ BodyWasRead
          /\ handlerCalls[j] = [status |-> httpResponse.StatusCode, body |-> data]
          /\ handlerCalls[j].body.len = bytesRead
    /\ C10_Before("read", "handler")
    /\ C10_Before("handler", "classify")
    /\ (xpc = "done" /\ Non2xxResponse /\ BodyWasRead) =>
          IF C5_RecognizedOutcome
          THEN /\ xErr.kind = "OperationOutcomeError"
               /\ xErr.HttpStatusCode = httpResponse.StatusCode
          ELSE xErr = [kind |-> "requestFailed",
                       Method |-> httpRequest.Method,
                       URL |-> httpRequest.URL,
                       status |-> httpResponse.StatusCode]

\* C13 as stated: a configured handler is invoked exactly once in every
\* exchange whose status is non-2xx, after the body has been read and before
\* the classification, with the bytes read; never for a 2xx response or a
\* transport failure; and the error returned does not depend on the handler.
C13_HandlerOnEveryNon2xx ==
    /\ C13_Observer
    /\ (xpc = "done" /\ Non2xxResponse /\ config.Non2xxStatusHandler) =>
          Len(handlerCalls) = 1

\* C13 (amended): a configured handler is invoked exactly once in every
\* exchange whose status is non-2xx and whose body has been read (no
\* post-request option failed and the read did not fail), after the read and
\* before the classification, with the bytes read; it is never invoked for a
\* 2xx response, when the transport fails, or in an exchange that ends before
\* the body has been read; and the error returned does not depend on the
\* handler.
C13_HandlerOncePerClassifiedNon2xx ==
    /\ C13_Observer
    /\ (xpc = "done" /\ Non2xxResponse /\ config.Non2xxStatusHandler /\ BodyWasRead) =>
          Len(handlerCalls) = 1
    /\ (xpc = "done" /\ ~BodyWasRead) => handlerCalls = <<>>

\* The handler has seen a 404 whose two bytes are an operation outcome.
C13_Witness ==
    /\ xpc = "done"
    /\ Responded
    /\ config.Non2xxStatusHandler
    /\ httpResponse.StatusCode = 404
    /\ Len(handlerCalls) = 1
    /\ handlerCalls[1].body.len = 2
    /\ handlerCalls[1].body.json.form = "object"
    /\ xErr.kind = "OperationOutcomeError"

\* C14: the maximum response size of the client is positive for every Config
\* passed to New: the default of 10 MiB for a nil config and for a size of 0,
\* the configured size when that is positive.
C14_MaxResponseSizePositive ==
    /\ config.MaxResponseSize > 0
    /\ (callerConfig = NilConfig \/ callerConfig.MaxResponseSize = 0) =>
          config.MaxResponseSize = 10 * 1024 * 1024
    /\ (callerConfig # NilConfig /\ callerConfig.MaxResponseSize > 0) =>
          config.MaxResponseSize = callerConfig.MaxResponseSize

-----------------------------------------------------------------------------
(* Claims about the operations and the options of the package.             *)

HeaderValues(h, k) == {h[k][j] : j \in 1..Len(h[k])}

\* The user options of a call that set the URL, edit the query, or remove
\* header values.
SetsURL(os) == \E k \in 1..Len(os) : os[k].kind = "pre" /\ os[k].fn \in {"AtUrl", "AtPath"}
EditsQuery(os) == \E k \in 1..Len(os) : os[k].kind = "pre" /\ os[k].fn = "QueryParam"
RemovesHeaders(os) ==
    \E k \in 1..Len(os) :
        os[k].kind = "pre" /\ os[k].fn \in {"HeaderSet", "HeaderDel", "HeaderReplace"}

SameLocation(u, w) == u.Scheme = w.Scheme /\ u.Host = w.Host /\ u.Path = w.Path

\* C15: a Read whose user options do not set the URL sends a GET to the path
\* itself when the path parses as an absolute URL and otherwise to the base
\* URL joined with the path (base http://example.com/fhir and path
\* Resource/123 give http://example.com/fhir/Resource/123), with the query
\* of the path when no option adds to it; the request carries Cache-Control:
\* no-cache (when no caller-written option removes header values); and a Read
\* whose path parses hands its request to the transport.
C15_ReadTarget ==
    /\ \A j \in 1..Len(sent) :
          sentBy[j].op = "Read" =>
              /\ sent[j].Method = "GET"
              /\ sent[j].Body = "none"
              /\ ~SetsURL(sentBy[j].opts) =>
                    /\ sentBy[j].path = "http://example.com/fhir/Resource/123" =>
                          SameLocation(sent[j].URL,
                              [Scheme |-> "http", Host |-> "example.com",
                               Path |-> <<"fhir", "Resource", "123">>])
                    /\ sentBy[j].path = "Resource/123" =>
                          SameLocation(sent[j].URL,
                              [Scheme |-> BaseURL.Scheme, Host |-> BaseURL.Host,
                               Path |-> BaseURL.Path \o <<"Resource", "123">>])
                    /\ ~EditsQuery(sentBy[j].opts) => sent[j].URL.RawQuery = <<>>
              /\ ~RemovesHeaders(sentBy[j].opts) =>
                    "no-cache" \in HeaderValues(sent[j].Header, "Cache-Control")
    /\ (call # <<>> /\ call.op = "Read" /\ xpc \in {"post", "done"}
          /\ call.path \in {"Resource/123", "http://example.com/fhir/Resource/123"}) =>
          /\ Len(sent) >= 1
          /\ sentBy[Len(sent)] = call

\* Reads of a relative path and of an absolute one have been sent.
C15_Witness ==
    /\ Len(sent) = 2
    /\ sentBy[1].op = "Read"
    /\ sentBy[1].path = "Resource/123"
    /\ sentBy[1].opts = <<QueryParam("_count", "1")>>
    /\ sent[2].URL.Path = <<"fhir", "Resource", "123">>
    /\ sent[2].URL.RawQuery = <<Pair("_count", "1")>>
    /\ sent[2].Header["Cache-Control"] = <<"no-cache">>

\* The resources with a resourceType that is a non-empty string, as bytes or
\* as a value that can be serialized.
HasResourceType(resource) ==
    /\ resource.raw \/ resource.marshals
    /\ resource.payload.form = "object"
    /\ resource.payload.resourceType.t = "string"
    /\ resource.payload.resourceType.s # ""

\* C16: every request Create hands to the transport is a POST for a resource
\* with a non-empty resourceType T, to {base}/T when no user option sets the
\* URL, whose body is the resource's JSON (the bytes themselves for a resource
\* given as bytes) and whose Content-Type is application/fhir+json; a Create
\* of such a resource hands its request to the transport, and a Create of any
\* other resource returns the describe error without invoking the transport.
C16_CreateTarget ==
    /\ \A j \in 1..Len(sent) :
          sentBy[j].op = "Create" =>
              /\ HasResourceType(sentBy[j].resource)
              /\ sent[j].Method = "POST"
              /\ sent[j].Body = [enc |-> "json", payload |-> sentBy[j].resource.payload]
              /\ ~SetsURL(sentBy[j].opts) =>
                    SameLocation(sent[j].URL,
                        [Scheme |-> BaseURL.Scheme, Host |-> BaseURL.Host,
                         Path |-> BaseURL.Path
                                    \o <<sentBy[j].resource.payload.resourceType.s>>])
              /\ ~RemovesHeaders(sentBy[j].opts) =>
                    sent[j].Header["Content-Type"] = <<"application/fhir+json">>
    /\ (call # <<>> /\ call.op = "Create" /\ xpc \in {"post", "done"}) =>
          IF HasResourceType(call.resource)
          THEN /\ Len(sent) >= 1
               /\ sentBy[Len(sent)] = call
          ELSE /\ xpc = "done"
               /\ sent = <<>>
               /\ xErr.kind = IF /\ call.resource.raw \/ call.resource.marshals
                                 /\ \/ call.resource.payload.form = "null"
                                    \/ /\ call.resource.payload.form = "object"
                                       /\ call.resource.payload.resourceType.t # "number"
                              THEN "resourceTypeNotPresent"
                              ELSE "invalidResource"
    /\ xpc # "panic" \/ call.op # "Create"

\* A Task given as bytes has been posted.
C16_Witness ==
    /\ Len(sent) = 1
    /\ sentBy[1].op = "Create"
    /\ sentBy[1].resource.raw
    /\ sentBy[1].opts = <<>>
    /\ sent[1].Method = "POST"
    /\ sent[1].URL.Path = <<"fhir", "Task">>
    /\ sent[1].Body.enc = "json"
    /\ sent[1].Body.payload.resourceType.s = "Task"

\* The values the header helpers are tried with.
HelperValues == {"application/fhir+json", "application/xml", "value", "foo"}

NoDuplicates(seq) == \A p, q \in 1..Len(seq) : seq[p] = seq[q] => p = q

IsPrefix(a, b) == Len(a) <= Len(b) /\ \A p \in 1..Len(a) : a[p] = b[p]

\* The header of a call's request before its user options run.
InitialHeader(c) ==
    [k \in HeaderKeys |->
        CASE k = "Accept" -> <<"application/fhir+json">>
          [] k = "Cache-Control" -> IF c.op = "Read" THEN <<"no-cache">> ELSE <<>>
          [] k = "Content-Type" -> IF c.op = "Read" THEN <<>> ELSE <<"application/fhir+json">>
          [] OTHER -> <<>>]

OnlyRequestHeaders(os) ==
    \A k \in 1..Len(os) : os[k].kind = "pre" /\ os[k].fn = "RequestHeaders"

\* C17: on every header a request is sent with, add-if-not-present appends
\* the value to the key's list unless that value is in it, leaves the values
\* already there in their order and does the same twice as once, and
\* set-if-not-present writes the value only when the key has no value and
\* otherwise changes nothing; and a request whose user options are
\* RequestHeaders options keeps every value it had before them in place (the
\* default Accept value first), has every value the options give, and has no
\* value twice.
C17_HeaderHelpers ==
    \A j \in 1..Len(sent) :
        LET h == sent[j].Header
        IN  /\ \A k \in HeaderKeys, v \in HelperValues :
                  LET a == addHeaderValueIfNotPresent(h, k, v)
                      t == setHeaderValueIfNotPresent(h, k, v)
                  IN  /\ IsPrefix(h[k], a[k])
                      /\ HeaderValues(a, k) = HeaderValues(h, k) \cup {v}
                      /\ Len(a[k]) = IF v \in HeaderValues(h, k)
                                     THEN Len(h[k]) ELSE Len(h[k]) + 1
                      /\ \A k2 \in HeaderKeys \ {k} : a[k2] = h[k2] /\ t[k2] = h[k2]
                      /\ addHeaderValueIfNotPresent(a, k, v) = a
                      /\ t[k] = IF Len(h[k]) = 0 THEN <<v>> ELSE h[k]
            /\ OnlyRequestHeaders(sentBy[j].opts) =>
                  \A k \in HeaderKeys :
                      /\ IsPrefix(InitialHeader(sentBy[j])[k], h[k])
                      /\ NoDuplicates(h[k])
                      /\ \A o \in 1..Len(sentBy[j].opts) :
                            HeaderValues(sentBy[j].opts[o].headers, k)
                                \subseteq HeaderValues(h, k)
                      /\ HeaderValues(h, k) =
                            HeaderValues(InitialHeader(sentBy[j]), k) \cup
                               UNION {HeaderValues(sentBy[j].opts[o].headers, k) :
                                         o \in 1..Len(sentBy[j].opts)}

\* RequestHeaders with Accept application/xml twice: one value added, after
\* the default.
C17_Witness ==
    /\ Len(sent) >= 1
    /\ sentBy[1].op = "Read"
    /\ Len(sentBy[1].opts) = 2
    /\ sentBy[1].opts[1] = sentBy[1].opts[2]
    /\ sentBy[1].opts[1].fn = "RequestHeaders"
    /\ sentBy[1].opts[1].headers["Accept"] = <<"application/xml">>
    /\ sent[1].Header["Accept"] = <<"application/fhir+json", "application/xml">>
    /\ sent[1].Header["Cache-Control"] = <<"no-cache">>

Count(seq, e) == Cardinality({p \in 1..Len(seq) : seq[p] = e})

\* The URL of request r after QueryParam(k, v) has been applied to it.
AfterQueryParam(r, k, v) ==
    ApplyPreRequestOption(QueryParam(k, v), Pipeline(r, "", urls)).r.URL

\* The position of a key among the sorted keys.
KeyRank(k) == CHOOSE n \in 1..Len(QueryKeys) : QueryKeys[n] = k

\* C18: on every URL a request is sent with, QueryParam(k, v) appends and
\* never replaces: the query afterwards holds every pair it held before, as
\* often as before, and (k, v) once more; the values of a key stay in the
\* order they were added; the encoded query lists the keys in sorted order, so
\* parameters with distinct keys give the same query in either order
\* (QueryParam(_id, 123), QueryParam(_count, 1) gives _count=1&_id=123).
C18_QueryParamAppends ==
    \A j \in 1..Len(sent) :
        /\ \A k \in QueryKeySet, v \in QueryValues :
              LET before == sent[j].URL.RawQuery
                  after == AfterQueryParam(sent[j], k, v).RawQuery
              IN  /\ \A p \in 1..Len(before) :
                        Count(after, [k |-> before[p].k, v |-> before[p].v, ok |-> TRUE])
                            >= Count(before, before[p])
                  /\ Count(after, Pair(k, v)) = Count(before, Pair(k, v)) + 1
                  /\ Query([RawQuery |-> after])[k] =
                        Append(Query([RawQuery |-> before])[k], v)
                  /\ \A p, q \in 1..Len(after) :
                        p < q => KeyRank(after[p].k) <= KeyRank(after[q].k)
        /\ \A k1, k2 \in QueryKeySet, v1, v2 \in QueryValues :
              k1 # k2 =>
                  AfterQueryParam([sent[j] EXCEPT !.URL = AfterQueryParam(sent[j], k1, v1)],
                                  k2, v2)
                    = AfterQueryParam([sent[j] EXCEPT !.URL = AfterQueryParam(sent[j], k2, v2)],
                                      k1, v1)
        /\ (sentBy[j].op = "Read"
              /\ sentBy[j].opts = <<QueryParam("_id", "123"), QueryParam("_count", "1")>>) =>
              sent[j].URL.RawQuery = <<Pair("_count", "1"), Pair("_id", "123")>>

\* C19: an exchange leaves the client's configuration and the URLs the
\* caller passed to AtUrl as they were, and a call made twice with the same
\* arguments and the same option values sends the same request both times.
C19_NoSharedState ==
    /\ urls = CallerURLs
    /\ config = New(callerConfig)
    /\ \A a, b \in 1..Len(sent) :
          sentBy[a] = sentBy[b] => sent[a].URL = sent[b].URL

\* C20: a Read that has been called has handed a request to the transport or
\* has returned an error, whatever its path string: it never ends in a panic.
C20_ReadNeverPanics ==
    /\ xpc # "panic"
    /\ (call # <<>> /\ call.op = "Read" /\ xpc \notin {"ready", "send"}) =>
          sent # <<>> \/ (xpc = "done" /\ xErr # Nil /\ xErr # NotReturned)

-----------------------------------------------------------------------------
(* Paginate: the order of its steps, the next link, the fetch stage, the   *)
(* pages fetched and the page handed to the consumer.                      *)

ProceedResult == [proceed |-> TRUE, err |-> Nil]

\* C21: Paginate is sequential.  The first consume call is on the initial
\* page; the k-th fetch is issued only after consumeFunc has returned
\* (true, nil) for page k; consumeFunc is called for page k+1 only after the
\* k-th fetch has succeeded, and on the page it fetched; in every state the
\* number of fetches issued equals the number of consume calls or is one less.
C21_StrictlySequential ==
    /\ Len(requests) \in {Len(consumed), Len(consumed) - 1}
    /\ Len(fetchResults) = Len(requests)
    /\ Len(consumeResults) = Len(consumed)
    /\ Len(consumed) >= 1 => consumed[1] = served[1]
    /\ \A k \in 1..Len(requests) : consumeResults[k] = ProceedResult
    /\ \A k \in 2..Len(consumed) :
          /\ fetchResults[k - 1] = Nil
          /\ consumed[k] = served[k]
    /\ ppc = "fetch" => Len(requests) = Len(consumed) - 1

C21_Witness ==
    /\ ppc = "loop"
    /\ Len(consumed) = 3
    /\ Len(requests) = 3
    /\ Len(served) = 4

\* C22: the fetch issued for a page goes to the URL of the last of its links
\* with relation "next", whatever other links the page has and wherever they
\* stand; a page without a "next" link, once consumed with (true, nil), ends
\* Paginate with nil and without a fetch.
C22_LastNextLinkWins ==
    /\ \A k \in 1..Len(requests) :
          /\ NextLinks(consumed[k]) # {}
          /\ requests[k] = NextLinkURL(consumed[k])
    /\ \A k \in 1..Len(consumed) :
          (NextLinks(consumed[k]) = {} /\ consumeResults[k] = ProceedResult) =>
              /\ ppc = "done"
              /\ pResult = Nil
              /\ Len(consumed) = k
              /\ Len(requests) = k - 1

C22_Witness ==
    /\ ppc = "done"
    /\ pResult = Nil
    /\ Len(requests) = 2
    /\ Len(consumed) = 3
    /\ Cardinality(NextLinks(consumed[1])) = 2
    /\ Len(consumed[1].Link) = 3
    /\ requests[1] = URL("http", "example.com", <<"fhir", "page2">>)
    /\ Len(consumed[2].Link) = 3
    /\ requests[2] = URL("http", "example.com", <<"fhir", "page3">>)
    /\ consumed[3].Link = <<Link("self", "http://example.com/fhir/current")>>
    /\ consumeResults[3] = ProceedResult

\* The URL string of the last "next" link of a page.
LastNextLink(page) ==
    page.Link[CHOOSE k \in NextLinks(page) : \A j \in NextLinks(page) : j <= k].Url

\* C23: failures of the fetch stage end Paginate.  When the URL of the "next"
\* link selected on a page does not parse, Paginate returns the invalid-next-
\* link error for that URL and sends no request for the page; when the request
\* for the next page fails, Paginate returns that error wrapped with the URL
\* asked for.  In both cases there is no later consume call and no later fetch.
C23_FetchStageFailuresHalt ==
    /\ \A k \in 1..Len(consumed) :
          ( /\ consumeResults[k] = ProceedResult
            /\ NextLinks(consumed[k]) # {}
            /\ ~UrlParse(LastNextLink(consumed[k])).ok ) =>
              /\ ppc = "done"
              /\ pResult = [kind |-> "invalidNextLink", url |-> LastNextLink(consumed[k])]
              /\ Len(consumed) = k
              /\ Len(requests) = k - 1
    /\ \A k \in 1..Len(fetchResults) :
          fetchResults[k] # Nil =>
              /\ ppc = "done"
              /\ pResult = [kind |-> "queryNextPageFailed", url |-> requests[k],
                            cause |-> fetchResults[k]]
              /\ Len(fetchResults) = k
              /\ Len(consumed) = k

C23_Witness ==
    /\ ppc = "done"
    /\ Len(fetchResults) = 2
    /\ fetchResults[1] = Nil
    /\ fetchResults[2] \in FetchErrors
    /\ pResult.kind = "queryNextPageFailed"
    /\ pResult.cause = fetchResults[2]

C23_InvalidLinkReached ==
    /\ ppc = "done"
    /\ Len(consumed) = 2
    /\ Len(requests) = 1
    /\ Len(consumed[2].Link) = 2
    /\ ~UrlParse(LastNextLink(consumed[2])).ok
    /\ pResult.kind = "invalidNextLink"

\* C27: every page fetched successfully (the pages after the initial one, in
\* the order served) has been passed to consumeFunc, once,
\* by the time Paginate has returned, whatever maxIterations is and however
\* the server and the consumer behave.
C27_EveryFetchedPageConsumed ==
    ppc = "done" =>
        \A k \in 2..Len(served) :
            Cardinality({j \in 1..Len(consumed) : consumed[j] = served[k]}) = 1

\* consumeFunc(&searchSet): every consume call is handed the address of the
\* one local variable searchSet, so the page a consumer kept from its k-th
\* call reads as the current value of that variable.
RetainedPage(k) == searchSet

\* C28: the page handed to consumeFunc is not altered afterwards: once
\* Paginate has returned, the page kept from the k-th consume call still has
\* the content it was handed over with, and the pages kept from different
\* calls differ.
C28_ConsumedPageUnaltered ==
    ppc = "done" =>
        /\ \A k \in 1..Len(consumed) : RetainedPage(k) = consumed[k]
        /\ \A j, k \in 1..Len(consumed) :
              j # k => RetainedPage(j) # RetainedPage(k)

\* C29: for every maxIterations, zero and negative ones included, Paginate
\* returns nil only after at least one consume call, the first of them on the
\* initial page; when it returns without any consume call, what it returns is
\* the max-iterations error.
C29_NilOnlyAfterConsume ==
    ppc = "done" =>
        /\ pResult = Nil => (Len(consumed) >= 1 /\ consumed[1] = served[1])
        /\ Len(consumed) = 0 => pResult = [kind |-> "maxIterations", n |-> maxIterations]

-----------------------------------------------------------------------------
(* Claims about the status boundary, the order of the checks on a 2xx       *)
(* response, the URL of the request and the caller's target.                *)

\* The body has been read and the status branch has been taken.
Processed == Responded /\ BodyWasRead /\ xpc \in {"parse", "done"}

\* What the non-2xx branch leaves behind: the handler called if there is one,
\* the error of the forced outcome check or else the request-failed error,
\* nothing decoded.
FailureBranchTaken ==
    /\ xpc = "done"
    /\ config.Non2xxStatusHandler =>
          handlerCalls = <<[status |-> httpResponse.StatusCode, body |-> data]>>
    /\ IF checkForOperationOutcomeError(data, TRUE, httpResponse.StatusCode) # Nil
       THEN xErr = checkForOperationOutcomeError(data, TRUE, httpResponse.StatusCode)
       ELSE xErr = [kind |-> "requestFailed", Method |-> httpRequest.Method,
                    URL |-> httpRequest.URL, status |-> httpResponse.StatusCode]
    /\ ~Happened("decode")
    /\ target = InitialTarget(target.kind)

\* What the success branch leaves behind: no handler call; the size error for
\* a body over the limit, else the error of the lenient outcome check, else
\* the body decoded or the decode error.
SuccessBranchTaken ==
    /\ handlerCalls = <<>>
    /\ IF data.len > config.MaxResponseSize
       THEN xErr.kind = "sizeExceeded"
       ELSE IF checkForOperationOutcomeError(data, FALSE, httpResponse.StatusCode) # Nil
       THEN xErr = checkForOperationOutcomeError(data, FALSE, httpResponse.StatusCode)
       ELSE Happened("decode") \/ xErr.kind = "unmarshal"

\* C24 as stated: the non-2xx branch is taken exactly when the status is
\* below 200 or at least 299, the success branch exactly when it is in
\* 200..298.
C24_BoundaryAt299 ==
    Processed =>
        IF httpResponse.StatusCode < 200 \/ httpResponse.StatusCode >= 299
        THEN FailureBranchTaken
        ELSE SuccessBranchTaken

\* C24 (amended): the non-2xx branch is taken exactly when the status is
\* below 200 or at least 300, the success branch exactly when it is in
\* 200..299.
C24_BoundaryAt300 ==
    Processed =>
        IF httpResponse.StatusCode < 200 \/ httpResponse.StatusCode >= 300
        THEN FailureBranchTaken
        ELSE SuccessBranchTaken

C24_Witness ==
    /\ xpc = "done"
    /\ Processed
    /\ httpResponse.StatusCode = 299
    /\ config.Non2xxStatusHandler
    /\ handlerCalls = <<>>
    /\ Happened("decode")
    /\ target # InitialTarget(target.kind)
    /\ xErr = Nil

C24_FailureAt300 ==
    /\ Processed
    /\ httpResponse.StatusCode = 300
    /\ config.Non2xxStatusHandler
    /\ Len(handlerCalls) = 1
    /\ xErr.kind = "requestFailed"

Is2xx(status) == 200 <= status /\ status < 300

\* The bytes read are an operation outcome with an issue of severity error or
\* fatal / with issues of lesser severity only.
ErrorOutcome ==
    /\ C5_RecognizedOutcome
    /\ data.json.issue.t = "array"
    /\ \E k \in 1..Len(data.json.issue.sev) : data.json.issue.sev[k] \in {"error", "fatal"}

WarningOutcome ==
    /\ C5_RecognizedOutcome
    /\ data.json.issue.t = "array"
    /\ data.json.issue.sev # <<>>
    /\ \A k \in 1..Len(data.json.issue.sev) :
          data.json.issue.sev[k] \in {"warning", "information"}

Decoded ==
    /\ Happened("decode")
    /\ target.value = IF target.kind = "bytes" THEN data ELSE data.json

\* C25: on a 2xx response the size check comes first, then the outcome check
\* that fails on error issues only, then the decoding, then the post-parse
\* options.  A body over the limit gives the size error whatever its content,
\* before any outcome check; an outcome with an error issue gives the
\* OperationOutcomeError and nothing is decoded; an outcome with warning or
\* information issues only is decoded into the target; a post-parse option
\* runs only after the decoding; and a non-2xx response never gives the size
\* error.
C25_OrderOf2xxChecks ==
    /\ (Processed /\ Is2xx(httpResponse.StatusCode)) =>
          /\ data.len > config.MaxResponseSize =>
                /\ xErr = [kind |-> "sizeExceeded", limit |-> config.MaxResponseSize,
                           Method |-> httpRequest.Method, URL |-> httpRequest.URL,
                           status |-> httpResponse.StatusCode]
                /\ ~Happened("classify")
                /\ ~Happened("decode")
                /\ target = InitialTarget(target.kind)
          /\ (data.len <= config.MaxResponseSize /\ ErrorOutcome) =>
                /\ xErr.kind = "OperationOutcomeError"
                /\ xErr.HttpStatusCode = httpResponse.StatusCode
                /\ ~Happened("decode")
                /\ target = InitialTarget(target.kind)
          /\ (data.len <= config.MaxResponseSize /\ WarningOutcome) =>
                /\ Decoded
                /\ xErr.kind \in {"nil", "notReturned", "option"}
    /\ C10_Before("classify", "decode")
    /\ \A p \in 1..Len(log) :
          log[p].e = "parse" => \E q \in 1..(p - 1) : log[q].e = "decode"
    /\ xErr.kind = "sizeExceeded" => (Responded /\ Is2xx(httpResponse.StatusCode))

C25_Witness ==
    /\ xpc = "done"
    /\ Processed
    /\ httpResponse.StatusCode = 200
    /\ config.MaxResponseSize = 1
    /\ data.len = 2
    /\ ErrorOutcome
    /\ xErr.kind = "sizeExceeded"

C25_WarningDecoded ==
    /\ xpc = "done"
    /\ Processed
    /\ Is2xx(httpResponse.StatusCode)
    /\ WarningOutcome
    /\ target.kind = "struct"
    /\ Decoded
    /\ \E p \in 1..Len(log) : log[p].e = "parse"
    /\ xErr = Nil

\* The user options that set the URL, and where such an option points.
UrlSetters(os) == {k \in 1..Len(os) : os[k].kind = "pre" /\ os[k].fn \in {"AtUrl", "AtPath"}}

LastUrlSetter(os) == CHOOSE k \in UrlSetters(os) : \A j \in UrlSetters(os) : j <= k

OptionLocation(o) ==
    IF o.fn = "AtPath"
    THEN [Scheme |-> BaseURL.Scheme, Host |-> BaseURL.Host,
          Path |-> BaseURL.Path \o <<o.path>>]
    ELSE [Scheme |-> CallerURLs[o.url.cell].Scheme, Host |-> CallerURLs[o.url.cell].Host,
          Path |-> CallerURLs[o.url.cell].Path]

OnlyUrlOptions(os) ==
    \A k \in 1..Len(os) : os[k].kind = "pre" /\ os[k].fn \in {"QueryParam", "AtUrl", "AtPath"}

\* C26: the operation's own URL option runs before the user's options, so a
\* request whose user options set the URL is sent to the place the last of
\* them names (AtPath("123") gives {base}/123 for Read and for Create alike),
\* with no query when that option is AtPath and no QueryParam follows it; the
\* request sent has the operation's method and body, and the headers the
\* operation and doRequest gave it when the options edit the URL only.
C26_LastUrlOptionWins ==
    \A j \in 1..Len(sent) :
        LET c == sentBy[j]
            os == sentBy[j].opts
        IN  /\ SetsURL(os) =>
                  /\ SameLocation(sent[j].URL, OptionLocation(os[LastUrlSetter(os)]))
                  /\ ( /\ os[LastUrlSetter(os)].fn = "AtPath"
                       /\ \A k \in (LastUrlSetter(os) + 1)..Len(os) :
                             os[k].fn # "QueryParam" ) =>
                        sent[j].URL.RawQuery = <<>>
            /\ sent[j].Method = CASE c.op = "Read" -> "GET"
                                  [] c.op = "Create" -> "POST"
                                  [] c.op = "Update" -> "PUT"
            /\ c.op = "Read" => sent[j].Body = "none"
            /\ c.op = "Create" =>
                  sent[j].Body = [enc |-> "json", payload |-> c.resource.payload]
            /\ OnlyUrlOptions(os) => sent[j].Header = InitialHeader(c)

\* Create(resource, AtPath("123")) has gone to {base}/123.
C26_Witness ==
    /\ Len(sent) = 1
    /\ sentBy[1].op = "Create"
    /\ sentBy[1].opts = <<AtPath("123")>>
    /\ sent[1].Method = "POST"
    /\ sent[1].URL = [BaseURL EXCEPT !.Path = @ \o <<"123">>]
    /\ sent[1].Header["Content-Type"] = <<"application/fhir+json">>

\* Read("Resource/123", AtUrl(u), AtPath("123")) has gone to {base}/123.
C26_ReadAtPath ==
    /\ Len(sent) = 1
    /\ sentBy[1].op = "Read"
    /\ sentBy[1].path = "Resource/123"
    /\ sentBy[1].opts = <<AtUrl(CallerURL("u")), AtPath("123")>>
    /\ sent[1].URL = [BaseURL EXCEPT !.Path = @ \o <<"123">>]

\* The stages of an exchange that end it before the decoding.
EarlyErrorKinds ==
    {"transport", "read", "requestFailed", "sizeExceeded", "OperationOutcomeError"}

EndedBeforeDecoding ==
    /\ xpc = "done"
    /\ \/ xErr.kind \in EarlyErrorKinds
       \/ xErr.kind = "option" /\ xErr.phase = "post"

\* C30: an exchange that returns the error of a stage before the decoding
\* (transport, post-request option, body read, non-2xx status, size, operation
\* outcome) leaves the caller's target as it was before the call; so does
\* every exchange whose response is non-2xx, over the limit or an outcome
\* with an error issue; and the target is written only by the decoding, after
\* the body has been read on a 2xx response within the limit.
C30_TargetUntouchedOnEarlyError ==
    /\ EndedBeforeDecoding =>
          /\ target = InitialTarget(call.kind)
          /\ ~Happened("decode")
    /\ ( /\ Processed
         /\ \/ ~Is2xx(httpResponse.StatusCode)
            \/ data.len > config.MaxResponseSize
            \/ ErrorOutcome ) =>
          /\ xErr.kind \in EarlyErrorKinds
          /\ target = InitialTarget(call.kind)
    /\ (call # <<>> /\ target # InitialTarget(call.kind)) =>
          /\ Processed
          /\ Happened("decode")
          /\ Is2xx(httpResponse.StatusCode)
          /\ data.len <= config.MaxResponseSize
          /\ ~ErrorOutcome

C30_Witness ==
    /\ xpc = "done"
    /\ Processed
    /\ httpResponse.StatusCode = 200
    /\ ErrorOutcome
    /\ data.len <= config.MaxResponseSize
    /\ call.kind = "bytes"
    /\ xErr.kind = "OperationOutcomeError"
    /\ target = InitialTarget("bytes")

C30_PostRequestFailureReached ==
    /\ xpc = "done"
    /\ xErr.kind = "option"
    /\ xErr.phase = "post"
    /\ httpResponse.StatusCode = 200
    /\ target = InitialTarget(call.kind)

====
